---- MODULE Spec2Model ----
(***************************************************************************)
(* world-hex-miner: the server's mining ownership engine, zone classifier, *)
(* classification cache and coastal safety buffer (server index.ts).       *)
(*                                                                         *)
(* The server is a single Node.js process.  A synchronous route handler    *)
(* (mine, spawn, register) runs to completion and is one action.  An async *)
(* handler (drive/simulate, drive/step, the classification routes) runs    *)
(* from one `await` of an upstream classification to the next; each such   *)
(* run is one action, and other requests interleave at the awaits.         *)
(***************************************************************************)
EXTENDS Integers, Sequences, FiniteSets, TLC

\* ---------------------------------------------------------------- bounds
\* The strip from the start cell to the shore, and the road beyond the shore.
NumCells == 6
RoadLen == 11
MaxInflight == 2
NumLand == 2
\* Entries of the event log after which no further request is started.
MaxEvents == 3

\* ------------------------------------------------------ program constants
DEFAULT_START_HEX == 1
SPAWN_COST_GHX == 5
DRIVE_COST_GHX == 5
DRIVE_DISK_K == 3
COAST_BUFFER_K == 4
COAST_DISPLAY_K == 3
START_BALANCE == 10
MINE_REWARD == 1

\* The request body without an h3Index (the only malformed cell id modelled).
InvalidH3 == 0
maxAttempts == 4
OVERPASS_ENDPOINTS == <<"overpass-api.de", "overpass.kumi.systems", "overpass.nchc.org.tw">>

\* ------------------------------------------------------------------ grid
\* Grid Addressing (h3-js) is an external library.  The cells of the model
\* are a strip, cell c adjacent to c-1 and c+1: NumCells cells up to the
\* shore, then RoadLen cells of coastal road.
Cells == 1..(NumCells + RoadLen)
\* Two accounts: a user and another user.
UserIds == {1, 2}
Slots == 1..MaxInflight

Abs(x) == IF x < 0 THEN 0 - x ELSE x

gridDistance(a, b) == Abs(a - b)

gridDisk(h, k) == {c \in Cells : gridDistance(h, c) <= k}

gridPathCells(a, b) ==
    [i \in 1..(gridDistance(a, b) + 1) |-> IF a <= b THEN a + (i - 1) ELSE a - (i - 1)]

\* h3.cellToLatLng(h) does not throw.
isValidCell(h) == h \in Cells

\* Not (!h3Index || typeof h3Index !== 'string').
hasH3Index(h) == h # InvalidH3

\* The cells of a set in ascending order (the iteration order of a disk).
RECURSIVE SetToSeq(_)
SetToSeq(S) ==
    IF S = {} THEN <<>>
    ELSE LET m == CHOOSE x \in S : \A y \in S : x <= y
         IN <<m>> \o SetToSeq(S \ {m})

Range(s) == {s[i] : i \in 1..Len(s)}

\* ------------------------------------------------------------ classifier
\* The tags of the features an upstream query returned, as "key=value"
\* (or "key" for a tag tested for presence only).
ZoneTypes ==
    {"SEA", "MAIN_ROAD", "URBAN", "INTERURBAN", "MILITARY", "HOSPITAL",
     "CLIFF", "COAST", "NATURE_RESERVE", "RIVER", "PRISON", "GOVERNMENT"}

HighwayTags ==
    {"highway=motorway", "highway=trunk", "highway=primary",
     "highway=secondary", "highway=residential"}

roadPriority(t) ==
    CASE t = "highway=motorway" -> 4
      [] t = "highway=trunk" -> 3
      [] t = "highway=primary" -> 2
      [] t = "highway=secondary" -> 1
      [] OTHER -> 0

hasMilitary(tags) == "landuse=military" \in tags \/ "military" \in tags
hasHospital(tags) == "amenity=hospital" \in tags
hasPrisonOrGovernment(tags) == "amenity=prison" \in tags \/ "building=government" \in tags
hasRoad(tags) == tags \cap HighwayTags # {}
\* A main-road test that also accepts primary roads.
hasMainRoadWithPrimary(tags) ==
    "highway=motorway" \in tags \/ "highway=trunk" \in tags \/ "highway=primary" \in tags

hasMainRoad(tags) == "highway=motorway" \in tags \/ "highway=trunk" \in tags
hasSea(tags) == tags \cap {"natural=sea", "natural=water", "place=sea", "water"} # {}
hasCoast(tags) == tags \cap {"natural=coastline", "natural=beach", "leisure=beach"} # {}
hasCliff(tags) == "natural=cliff" \in tags
hasNature(tags) == tags \cap {"leisure=park", "landuse=forest", "natural=wood"} # {}
hasUrban(tags) ==
    tags \cap {"building", "building=government", "landuse=residential",
               "landuse=commercial", "landuse=industrial", "place=city",
               "place=town", "place=village"} # {}

\* The strongest road class seen: motorway > trunk > primary > secondary;
\* a highway of another class leaves it undefined ("none").
roadClass(tags) ==
    LET ranked == {t \in tags \cap HighwayTags : roadPriority(t) > 0}
    IN IF ranked = {} THEN "none"
       ELSE CHOOSE t \in ranked : \A o \in ranked : roadPriority(o) <= roadPriority(t)

\* An area classifier that ranks built-up fabric above cliff and coast.
areaZoneTypeUrbanFirst(tags) ==
    IF hasMilitary(tags) THEN "MILITARY"
    ELSE IF hasPrisonOrGovernment(tags) THEN "PRISON"
    ELSE IF hasHospital(tags) THEN "HOSPITAL"
    ELSE IF hasMainRoad(tags) THEN "MAIN_ROAD"
    ELSE IF hasUrban(tags) THEN "URBAN"
    ELSE IF hasCliff(tags) THEN "CLIFF"
    ELSE IF hasCoast(tags) THEN "COAST"
    ELSE IF hasSea(tags) THEN "SEA"
    ELSE IF hasNature(tags) THEN "NATURE_RESERVE"
    ELSE "INTERURBAN"

\* A local classifier that ranks water above built-up fabric.
centroidZoneTypeSeaFirst(tags) ==
    IF hasMilitary(tags) THEN "MILITARY"
    ELSE IF hasPrisonOrGovernment(tags) THEN "PRISON"
    ELSE IF hasHospital(tags) THEN "HOSPITAL"
    ELSE IF hasMainRoad(tags) THEN "MAIN_ROAD"
    ELSE IF hasSea(tags) THEN "SEA"
    ELSE IF hasUrban(tags) THEN "URBAN"
    ELSE IF hasNature(tags) THEN "NATURE_RESERVE"
    ELSE "SEA"

\* inferZoneTypeFromOverpass: the category the bbox ("area") variant resolves
\* a set of returned tags to.
areaZoneType(tags) ==
    IF hasMilitary(tags) THEN "MILITARY"
    ELSE IF hasPrisonOrGovernment(tags) THEN "PRISON"
    ELSE IF hasHospital(tags) THEN "HOSPITAL"
    ELSE IF hasMainRoad(tags) THEN "MAIN_ROAD"
    ELSE IF hasCliff(tags) THEN "CLIFF"
    ELSE IF hasCoast(tags) THEN "COAST"
    ELSE IF hasUrban(tags) THEN "URBAN"
    ELSE IF hasSea(tags) THEN "SEA"
    ELSE IF hasNature(tags) THEN "NATURE_RESERVE"
    ELSE "INTERURBAN"

\* inferZoneTypeAtCentroid: the category the centroid ("local") variant
\* resolves a set of returned tags to.
centroidZoneType(tags) ==
    IF hasMilitary(tags) THEN "MILITARY"
    ELSE IF hasPrisonOrGovernment(tags) THEN "PRISON"
    ELSE IF hasHospital(tags) THEN "HOSPITAL"
    ELSE IF hasMainRoad(tags) THEN "MAIN_ROAD"
    ELSE IF hasUrban(tags) THEN "URBAN"
    ELSE IF hasSea(tags) THEN "SEA"
    ELSE IF hasNature(tags) THEN "NATURE_RESERVE"
    ELSE "SEA"

inferZoneTypeFromOverpass(tags) ==
    [zoneType |-> areaZoneType(tags), hasRoad |-> hasRoad(tags), roadClass |-> roadClass(tags)]

inferZoneTypeAtCentroid(tags) ==
    [zoneType |-> centroidZoneType(tags), hasRoad |-> hasRoad(tags), roadClass |-> roadClass(tags)]

\* The strip lies at moderate latitude except its last cell, which is polar.
cellLatitude(h) == IF h = NumCells THEN 80 ELSE 32

fallbackZoneType(h) ==
    IF cellLatitude(h) > 73 \/ cellLatitude(h) < 0 - 73 THEN "SEA" ELSE "INTERURBAN"

\* What the upstream map-data service holds for the strip: the first
\* NumLand cells are land with buildings and roads, cell NumCells is the
\* shore, the cells between are open water.  A query for a cell returns one
\* of the tag sets of its cell, or fails after its retries.
mapFeatures(h) ==
    IF h <= NumLand
    THEN { {"building"},
           {"highway=residential", "building"},
           {"highway=motorway"},
           {"amenity=hospital", "highway=primary"} }
    ELSE IF h = NumCells
    THEN { {"natural=coastline"}, {"natural=coastline", "natural=cliff"} }
    ELSE IF h > NumCells
    THEN { {"highway=trunk"}, {"landuse=industrial"} }
    ELSE { {"natural=water"} }

UpstreamFailed == [ok |-> FALSE, tags |-> {}]

UpstreamOutcomes(h) == {[ok |-> TRUE, tags |-> t] : t \in mapFeatures(h)} \cup {UpstreamFailed}

\* What one upstream request may come back with: a body of features, an
\* HTTP error status, or a network failure.
FetchReplies(h) ==
    {[kind |-> "ok", status |-> 200, tags |-> t] : t \in mapFeatures(h)}
        \cup {[kind |-> "status", status |-> c, tags |-> {}] : c \in {429, 503, 404}}
        \cup {[kind |-> "network", status |-> 0, tags |-> {}]}

\* response.status === 429 || (response.status >= 500 && response.status <= 599)
retryable(reply) ==
    /\ reply.kind = "status"
    /\ reply.status = 429 \/ (reply.status >= 500 /\ reply.status <= 599)

\* An endpoint choice that never rotates.
fetchEndpointFirstOnly(attempt) == OVERPASS_ENDPOINTS[1]

\* OVERPASS_ENDPOINTS[attempt % OVERPASS_ENDPOINTS.length]
fetchEndpoint(attempt) == OVERPASS_ENDPOINTS[(attempt % Len(OVERPASS_ENDPOINTS)) + 1]

\* One iteration of the loop of overpassFetch: the query goes to the
\* attempt's endpoint and the reply is handled.  `throw new Error(status)`
\* sits inside the try block, so the catch clause handles it as it handles
\* a network failure.
overpassFetch(f, reply) ==
    LET sent == Append(f.sent, fetchEndpoint(f.attempt))
        again == [attempt |-> f.attempt + 1, sent |-> sent, done |-> FALSE,
                  outcome |-> UpstreamFailed]
        failed == [attempt |-> f.attempt, sent |-> sent, done |-> TRUE,
                   outcome |-> UpstreamFailed]
    IN IF reply.kind = "ok"
       THEN [attempt |-> f.attempt, sent |-> sent, done |-> TRUE,
             outcome |-> [ok |-> TRUE, tags |-> reply.tags]]
       ELSE IF retryable(reply)
       THEN IF f.attempt + 1 < maxAttempts THEN again ELSE failed
       ELSE IF f.attempt < maxAttempts - 1 THEN again ELSE failed

\* ----------------------------------------------------------------- state
VARIABLES
    usersById,          \* user id -> User {exists, balance, ownedHexes}
    hexCache,           \* cell -> cached zone type, or "none"
    coastBufferHexes,   \* the Coastal Buffer Set
    treasury,           \* treasury.ghxBalance
    miningEvents,       \* the mining-event log, oldest first
    diskUsers,          \* users.json
    diskHexCache,       \* hexCache.json
    diskCoastBuffer,    \* coastBuffer.json
    diskTreasury,       \* treasury.json
    diskMiningEvents,   \* miningEvents.json
    fsWritable,         \* whether a write to the data directory succeeds now
    reqs,               \* the requests suspended on an upstream classification
    resp                \* the response the last handler run sent, if any

memVars == <<usersById, hexCache, coastBufferHexes, treasury, miningEvents>>
diskVars == <<diskUsers, diskHexCache, diskCoastBuffer, diskTreasury, diskMiningEvents>>
vars == <<usersById, hexCache, coastBufferHexes, treasury, miningEvents,
          diskUsers, diskHexCache, diskCoastBuffer, diskTreasury, diskMiningEvents,
          fsWritable, reqs, resp>>

NoUser == [exists |-> FALSE, balance |-> 0, ownedHexes |-> {}]

NoCacheEntry == "none"

\* The upstream fetch of a request in flight: the attempt the loop is at, the
\* endpoints it has sent the query to, and its outcome once it has settled.
NoFetch == [attempt |-> 0, sent |-> <<>>, done |-> FALSE, outcome |-> UpstreamFailed]

\* `held`: the user object a handler of the compiled build works on once the
\* map no longer holds it (NoUser while the map's entry is that object).
Idle ==
    [op |-> "idle", user |-> 0, cells |-> <<>>, idx |-> 0, newly |-> <<>>, toH3 |-> 0,
     held |-> NoUser, fetch |-> NoFetch]

\* The numbers of a response body; only the drive routes' success bodies
\* are modelled, every other body carries NoBody.
NoBody == [count |-> 0, grossReward |-> 0, fee |-> 0, netDelta |-> 0, ghxCost |-> 0,
           newBalance |-> 0]

NoResp ==
    [op |-> "none", status |-> 0, ok |-> FALSE, code |-> "none", via |-> "none",
     body |-> NoBody, elements |-> {}]

\* The response to a request of user u about cell h: the route, the HTTP
\* status, the body's `ok`, its `reason`, `error` or `zoneType`, and where a
\* classification came from.  `elements` keeps, for the two diagnostic
\* classification routes, the tags of the elements the upstream returned.
Resp(op, u, h, status, ok, code, via) ==
    [op |-> op, status |-> status, ok |-> ok, code |-> code, via |-> via,
     body |-> NoBody, elements |-> {}]

\* drive/step: { count: N, grossReward, fee, netDelta, newBalance }.
StepBody(n, fee, newBalance) ==
    [count |-> n, grossReward |-> n, fee |-> fee, netDelta |-> n - fee, ghxCost |-> 0,
     newBalance |-> newBalance]

\* drive/simulate: { addedHexes, ghxCost, newBalance }.
SimulateBody(n, newBalance) ==
    [count |-> n, grossReward |-> 0, fee |-> 0, netDelta |-> 0,
     ghxCost |-> DRIVE_COST_GHX, newBalance |-> newBalance]

\* The HTTP status a handler answers a failure with: 401 and 400 for the
\* `error` results, 200 for the `reason` results.
StatusOf(code) ==
    CASE code = "UNAUTHENTICATED" -> 401
      [] code \in {"INVALID_H3_INDEX", "EMAIL_IN_USE"} -> 400
      [] OTHER -> 200

\* -------------------------------------------------------------- helpers
buildGlobalOwnedHexesSet(users) ==
    UNION {users[u].ownedHexes : u \in {v \in UserIds : users[v].exists}}

\* saveX: fs.writeFileSync inside try/catch; a failed write is swallowed and
\* leaves the document as it was.
saveDoc(writable, doc, value) == IF writable THEN value ELSE doc

\* A fee collection that drops the fee.
collectTreasuryFeeDiscarded(balance, amount) == balance

\* A fee collection that stores the fee instead of adding it.
collectTreasuryFeeOverwriting(balance, amount) ==
    IF amount <= 0 THEN balance ELSE amount

collectTreasuryFee(balance, amount) == IF amount <= 0 THEN balance ELSE balance + amount

eventsFor(u, cells) == [i \in 1..Len(cells) |-> [userId |-> u, h3Index |-> cells[i]]]

\* markCoastAndBuffer: the buffer with the disk of radius 4 around h added.
markCoastAndBuffer(buffer, h) == buffer \cup gridDisk(h, COAST_BUFFER_K)

\* A markCoastAndBuffer that writes the document on every call.
saveCoastBufferAlways(writable, doc, buffer, newBuffer) ==
    saveDoc(writable, doc, newBuffer)

\* The buffer document after markCoastAndBuffer took the set from buffer to
\* newBuffer: saveCoastBuffer is called only `if (changed)`.
saveCoastBufferIfChanged(writable, doc, buffer, newBuffer) ==
    IF newBuffer # buffer THEN saveDoc(writable, doc, newBuffer) ELSE doc

\* A widening that also overrides the safety and infrastructure categories.
applyCoastBufferFromCacheOverriding(cache, h, zoneType) ==
    IF \E c \in gridDisk(h, COAST_DISPLAY_K) : cache[c] = "COAST" THEN "COAST"
    ELSE zoneType

\* applyCoastBufferFromCache: the category reported for h given its base
\* category and the cache.
applyCoastBufferFromCache(cache, h, zoneType) ==
    IF zoneType \in {"MILITARY", "PRISON", "HOSPITAL", "MAIN_ROAD", "CLIFF"} THEN zoneType
    ELSE IF \E c \in gridDisk(h, COAST_DISPLAY_K) : cache[c] = "COAST" THEN "COAST"
    ELSE zoneType

FreeSlots == {s \in Slots : reqs[s].op = "idle"}

\* The slot a new suspended request takes.
NewSlot == CHOOSE s \in FreeSlots : \A t \in FreeSlots : s <= t

\* ------------------------------------------------------------------ Init
\* The state after start-up on an empty data directory.
Init ==
    /\ usersById = [u \in UserIds |-> NoUser]
    /\ hexCache = [c \in Cells |-> NoCacheEntry]
    /\ coastBufferHexes = {}
    /\ treasury = 0
    /\ miningEvents = <<>>
    /\ diskUsers = [u \in UserIds |-> NoUser]
    /\ diskHexCache = [c \in Cells |-> NoCacheEntry]
    /\ diskCoastBuffer = {}
    /\ diskTreasury = 0
    /\ diskMiningEvents = <<>>
    /\ fsWritable = TRUE
    /\ reqs = [s \in Slots |-> Idle]
    /\ resp = NoResp

\* -------------------------------------------------------------- register
createUser == [exists |-> TRUE, balance |-> START_BALANCE, ownedHexes |-> {DEFAULT_START_HEX}]

\* POST /api/auth/register; the user id stands for the e-mail address too.
Register(u) ==
    IF usersById[u].exists
    THEN /\ resp' = Resp("register", u, 0, 400, FALSE, "EMAIL_IN_USE", "none")
         /\ UNCHANGED <<memVars, diskVars, fsWritable, reqs>>
    ELSE /\ usersById' = [usersById EXCEPT ![u] = createUser]
         /\ diskUsers' = saveDoc(fsWritable, diskUsers, usersById')
         /\ resp' = Resp("register", u, 0, 200, TRUE, "OK", "none")
         /\ UNCHANGED <<hexCache, coastBufferHexes, treasury, miningEvents,
                        diskHexCache, diskCoastBuffer, diskTreasury, diskMiningEvents,
                        fsWritable, reqs>>

\* ------------------------------------------------------------------ mine
\* A Mine that skips the global-index check.
MineReasonNoGlobalCheck(users, buffer, u, h) ==
    IF ~users[u].exists THEN "UNAUTHENTICATED"
    ELSE IF ~hasH3Index(h) THEN "INVALID_H3_INDEX"
    ELSE IF h \in users[u].ownedHexes THEN "ALREADY_MINED"
    ELSE IF h \in buffer THEN "FORBIDDEN_ZONE"
    ELSE "OK"

\* A Mine that skips the caller's own owned set.
MineReasonNoOwnCheck(users, buffer, u, h) ==
    IF ~users[u].exists THEN "UNAUTHENTICATED"
    ELSE IF ~hasH3Index(h) THEN "INVALID_H3_INDEX"
    ELSE IF h \in buildGlobalOwnedHexesSet(users) THEN "OWNED_BY_OTHER"
    ELSE IF h \in buffer THEN "FORBIDDEN_ZONE"
    ELSE "OK"

\* A Mine that pays the reward twice.
MinedUserPaidTwice(user, h) ==
    [user EXCEPT !.ownedHexes = @ \cup {h}, !.balance = @ + 2 * MINE_REWARD]

\* The outcome of the checks of POST /api/mine, in the order the handler
\* makes them; "OK" when the claim goes through.
MineReason(users, buffer, u, h) ==
    IF ~users[u].exists THEN "UNAUTHENTICATED"
    ELSE IF ~hasH3Index(h) THEN "INVALID_H3_INDEX"
    ELSE IF h \in users[u].ownedHexes THEN "ALREADY_MINED"
    ELSE IF h \in buildGlobalOwnedHexesSet(users) THEN "OWNED_BY_OTHER"
    ELSE IF h \in buffer THEN "FORBIDDEN_ZONE"
    ELSE "OK"

\* The user record after a successful mine of h.
MinedUser(user, h) ==
    [user EXCEPT !.ownedHexes = @ \cup {h}, !.balance = @ + MINE_REWARD]

Mine(u, h) ==
    LET reason == MineReason(usersById, coastBufferHexes, u, h)
    IN IF reason = "OK"
       THEN /\ usersById' = [usersById EXCEPT ![u] = MinedUser(@, h)]
            /\ miningEvents' = miningEvents \o eventsFor(u, <<h>>)
            /\ diskMiningEvents' = saveDoc(fsWritable, diskMiningEvents, miningEvents')
            /\ diskUsers' = saveDoc(fsWritable, diskUsers, usersById')
            /\ resp' = Resp("mine", u, h, 200, TRUE, "OK", "none")
            /\ UNCHANGED <<hexCache, coastBufferHexes, treasury, diskHexCache,
                           diskCoastBuffer, diskTreasury, fsWritable, reqs>>
       ELSE /\ resp' = Resp("mine", u, h, StatusOf(reason), FALSE, reason, "none")
            /\ UNCHANGED <<memVars, diskVars, fsWritable, reqs>>

\* ----------------------------------------------------------------- spawn
\* The request body's geolocation proof, as the checks of the handler see it.
GpsProofs == {"valid", "missing", "stale", "inaccurate", "elsewhere"}

GpsReason(gps) ==
    CASE gps = "missing" -> "GPS_REQUIRED"
      [] gps = "stale" -> "GPS_STALE"
      [] gps = "inaccurate" -> "GPS_ACCURACY_LOW"
      [] gps = "elsewhere" -> "GPS_MISMATCH"
      [] OTHER -> "OK"

\* POST /api/mine with its whole request body: lat, lon, accuracyM and gpsAt
\* are destructured and never read (geolocation verification is disabled).
MineRequest(u, h, gps) == Mine(u, h)

\* A Spawn that skips the balance check.
SpawnReasonNoBalanceCheck(users, u, h, gps) ==
    IF ~users[u].exists THEN "UNAUTHENTICATED"
    ELSE IF ~hasH3Index(h) THEN "INVALID_H3_INDEX"
    ELSE IF GpsReason(gps) # "OK" THEN GpsReason(gps)
    ELSE IF h \in users[u].ownedHexes THEN "ALREADY_OWNED"
    ELSE "OK"

\* A Spawn that also pays the mining reward.
SpawnedUserRewarded(user, h) ==
    [user EXCEPT !.ownedHexes = @ \cup {h}, !.balance = (@ - SPAWN_COST_GHX) + MINE_REWARD]

SpawnReason(users, u, h, gps) ==
    IF ~users[u].exists THEN "UNAUTHENTICATED"
    ELSE IF ~hasH3Index(h) THEN "INVALID_H3_INDEX"
    ELSE IF GpsReason(gps) # "OK" THEN GpsReason(gps)
    ELSE IF h \in users[u].ownedHexes THEN "ALREADY_OWNED"
    ELSE IF users[u].balance < SPAWN_COST_GHX THEN "INSUFFICIENT_GHX"
    ELSE "OK"

SpawnedUser(user, h) ==
    [user EXCEPT !.ownedHexes = @ \cup {h}, !.balance = @ - SPAWN_COST_GHX]

Spawn(u, h, gps) ==
    LET reason == SpawnReason(usersById, u, h, gps)
    IN IF reason = "OK"
       THEN /\ usersById' = [usersById EXCEPT ![u] = SpawnedUser(@, h)]
            /\ treasury' = collectTreasuryFee(treasury, SPAWN_COST_GHX)
            /\ diskTreasury' = saveDoc(fsWritable, diskTreasury, treasury')
            /\ miningEvents' = miningEvents \o eventsFor(u, <<h>>)
            /\ diskMiningEvents' = saveDoc(fsWritable, diskMiningEvents, miningEvents')
            /\ diskUsers' = saveDoc(fsWritable, diskUsers, usersById')
            /\ resp' = Resp("spawn", u, h, 200, TRUE, "OK", "none")
            /\ UNCHANGED <<hexCache, coastBufferHexes, diskHexCache, diskCoastBuffer,
                           fsWritable, reqs>>
       ELSE /\ resp' = Resp("spawn", u, h, StatusOf(reason), FALSE, reason, "none")
            /\ UNCHANGED <<memVars, diskVars, fsWritable, reqs>>

\* ----------------------------------------------------------------- drive
\* The index of the first cell at or after `from` that the user does not
\* own (the loop's `continue` on owned cells), Len(cells) + 1 if none.
NextUnowned(cells, from, owned) ==
    LET rest == {j \in from..Len(cells) : cells[j] \notin owned}
    IN IF rest = {} THEN Len(cells) + 1
       ELSE CHOOSE j \in rest : \A k \in rest : j <= k

\* A road test that accepts the MAIN_ROAD category only.
isRoadHexMainRoadOnly(outcome) ==
    /\ outcome # UpstreamFailed
    /\ inferZoneTypeAtCentroid(outcome.tags).zoneType = "MAIN_ROAD"

\* const isRoadHex = inferred.zoneType === 'MAIN_ROAD' || inferred.hasRoad;
\* a classification that throws skips the cell.
isRoadHex(outcome) ==
    /\ outcome # UpstreamFailed
    /\ \/ inferZoneTypeAtCentroid(outcome.tags).zoneType = "MAIN_ROAD"
       \/ inferZoneTypeAtCentroid(outcome.tags).hasRoad

\* A settlement that charges the drive cost for every cell of the batch.
simulateSettlePerCell(user, newly) ==
    IF Len(newly) = 0 THEN user
    ELSE [user EXCEPT !.balance = (@ - Len(newly) * DRIVE_COST_GHX) + Len(newly) * MINE_REWARD,
                      !.ownedHexes = @ \cup Range(newly)]

\* drive/simulate after its loop: the user record once the batch is settled.
simulateSettle(user, newly) ==
    IF Len(newly) = 0 THEN user
    ELSE [user EXCEPT !.balance = (@ - DRIVE_COST_GHX) + Len(newly) * MINE_REWARD,
                      !.ownedHexes = @ \cup Range(newly)]

\* A drive/step without the fallback to the destination cell.
stepMinedNoFallback(user, newly, toH3) == newly

\* drive/step after its loop: the cells it mines, given the road cells found.
stepMined(user, newly, toH3) ==
    IF Len(newly) = 0 /\ toH3 \notin user.ownedHexes THEN <<toH3>> ELSE newly

\* A fee of 10% of N rounded up.
stepFeeRoundedUp(n) == (n + 9) \div 10

\* Fee: 10% of N, floored.
stepFee(n) == n \div 10

stepSettle(user, mined) ==
    [user EXCEPT !.balance = @ + (Len(mined) - stepFee(Len(mined))),
                 !.ownedHexes = @ \cup Range(mined)]

\* A drive handler that charges its fixed cost before it looks at the batch.
DriveFinishChargingFirst(r, newly, slots) ==
    LET u == r.user
        user == usersById[u]
        mined == IF r.op = "simulate" THEN newly ELSE stepMined(user, newly, r.toH3)
    IN /\ reqs' = slots
       /\ usersById' = [usersById EXCEPT ![u] =
               [@ EXCEPT !.balance = (@ - DRIVE_COST_GHX) + Len(mined) * MINE_REWARD,
                         !.ownedHexes = @ \cup Range(mined)]]
       /\ treasury' = collectTreasuryFee(treasury, DRIVE_COST_GHX)
       /\ diskTreasury' = saveDoc(fsWritable, diskTreasury, treasury')
       /\ miningEvents' = miningEvents \o eventsFor(u, mined)
       /\ diskMiningEvents' = saveDoc(fsWritable, diskMiningEvents, miningEvents')
       /\ diskUsers' = saveDoc(fsWritable, diskUsers, usersById')
       /\ resp' = IF Len(mined) = 0
                  THEN Resp(r.op, u, r.toH3, 200, FALSE, "NO_ROAD_HEXES", "none")
                  ELSE Resp(r.op, u, r.toH3, 200, TRUE, "OK", "none")
       /\ UNCHANGED <<hexCache, coastBufferHexes, diskHexCache, diskCoastBuffer,
                      fsWritable>>

\* The end of a drive handler: the code after the classification loop.
\* `slots` is reqs with the request's own slot released.
DriveFinish(r, newly, slots) ==
    LET u == r.user
        user == usersById[u]
        mined == IF r.op = "simulate" THEN newly ELSE stepMined(user, newly, r.toH3)
        fee == IF r.op = "simulate" THEN DRIVE_COST_GHX ELSE stepFee(Len(mined))
    IN /\ reqs' = slots
       /\ IF Len(mined) = 0
          THEN /\ resp' = Resp(r.op, u, r.toH3, 200, FALSE, "NO_ROAD_HEXES", "none")
               /\ UNCHANGED <<memVars, diskVars, fsWritable>>
          ELSE /\ usersById' = [usersById EXCEPT ![u] =
                       IF r.op = "simulate" THEN simulateSettle(@, mined)
                       ELSE stepSettle(@, mined)]
               /\ treasury' = collectTreasuryFee(treasury, fee)
               /\ diskTreasury' = IF fee > 0 THEN saveDoc(fsWritable, diskTreasury, treasury')
                                  ELSE diskTreasury
               /\ miningEvents' = miningEvents \o eventsFor(u, mined)
               /\ diskMiningEvents' = saveDoc(fsWritable, diskMiningEvents, miningEvents')
               /\ diskUsers' = saveDoc(fsWritable, diskUsers, usersById')
               /\ resp' = [Resp(r.op, u, r.toH3, 200, TRUE, "OK", "none") EXCEPT !.body =
                      IF r.op = "simulate"
                      THEN SimulateBody(Len(mined), usersById'[u].balance)
                      ELSE StepBody(Len(mined), fee, usersById'[u].balance)]
               /\ UNCHANGED <<hexCache, coastBufferHexes, diskHexCache, diskCoastBuffer,
                              fsWritable>>

\* A drive handler from an await's resumption (or from its start) to its
\* next await or its end: skip owned cells, suspend on the next unowned one.
DriveContinue(r, newly, from, slot, slots) ==
    LET j == NextUnowned(r.cells, from, usersById[r.user].ownedHexes)
    IN IF j <= Len(r.cells)
       THEN /\ reqs' = [slots EXCEPT ![slot] = [r EXCEPT !.idx = j, !.newly = newly]]
            /\ resp' = NoResp
            /\ UNCHANGED <<memVars, diskVars, fsWritable>>
       ELSE DriveFinish(r, newly, slots)

DriveSimulateReason(users, u, center) ==
    IF ~users[u].exists THEN "UNAUTHENTICATED"
    ELSE IF ~hasH3Index(center) THEN "INVALID_H3_INDEX"
    ELSE IF ~isValidCell(center) THEN "INVALID_H3_INDEX"
    ELSE IF users[u].balance < DRIVE_COST_GHX THEN "INSUFFICIENT_GHX"
    ELSE "OK"

\* POST /api/drive/simulate up to its first await.
DriveSimulate(u, center) ==
    LET reason == DriveSimulateReason(usersById, u, center)
    IN IF reason # "OK"
       THEN /\ resp' = Resp("simulate", u, center, StatusOf(reason), FALSE, reason, "none")
            /\ UNCHANGED <<memVars, diskVars, fsWritable, reqs>>
       ELSE /\ FreeSlots # {}
            /\ DriveContinue([op |-> "simulate", user |-> u,
                              cells |-> SetToSeq(gridDisk(center, DRIVE_DISK_K)),
                              idx |-> 0, newly |-> <<>>, toH3 |-> center,
                              held |-> NoUser, fetch |-> NoFetch],
                             <<>>, 1, NewSlot, reqs)

DriveStepReason(users, u, fromH3, toH3) ==
    IF ~users[u].exists THEN "UNAUTHENTICATED"
    ELSE IF ~hasH3Index(fromH3) \/ ~hasH3Index(toH3) THEN "INVALID_H3_INDEX"
    ELSE IF fromH3 = toH3 THEN "SAME_HEX"
    ELSE IF ~isValidCell(fromH3) \/ ~isValidCell(toH3) THEN "INVALID_H3_INDEX"
    ELSE "OK"

\* POST /api/drive/step up to its first await.  `noPath`: h3.gridPathCells
\* threw, and the path is the destination alone.
DriveStep(u, fromH3, toH3, noPath) ==
    LET reason == DriveStepReason(usersById, u, fromH3, toH3)
    IN IF reason # "OK"
       THEN /\ resp' = Resp("step", u, toH3, StatusOf(reason), FALSE, reason, "none")
            /\ UNCHANGED <<memVars, diskVars, fsWritable, reqs>>
       ELSE /\ FreeSlots # {}
            /\ DriveContinue([op |-> "step", user |-> u,
                              cells |-> IF noPath THEN <<toH3>>
                                        ELSE gridPathCells(fromH3, toH3),
                              idx |-> 0, newly |-> <<>>, toH3 |-> toH3,
                              held |-> NoUser, fetch |-> NoFetch],
                             <<>>, 1, NewSlot, reqs)

\* A drive handler resumed from `await inferZoneTypeAtCentroid(idx)`.
DriveResume(slot, outcome) ==
    LET r == reqs[slot]
    IN /\ r.op \in {"simulate", "step"}
       /\ DriveContinue(r,
                        IF isRoadHex(outcome) THEN Append(r.newly, r.cells[r.idx])
                        ELSE r.newly,
                        r.idx + 1, slot, [reqs EXCEPT ![slot] = Idle])

\* ------------------------------------------------- classification routes
HexRequest(op, h) ==
    [op |-> op, user |-> 0, cells |-> <<h>>, idx |-> 1, newly |-> <<>>, toH3 |-> h,
     held |-> NoUser, fetch |-> NoFetch]

\* A hex route that queries the upstream whether or not the cell is cached.
HexGetAlwaysQuerying(h) ==
    /\ FreeSlots # {}
    /\ reqs' = [reqs EXCEPT ![NewSlot] = HexRequest("hex", h)]
    /\ resp' = NoResp
    /\ UNCHANGED <<memVars, diskVars, fsWritable>>

\* GET /api/hex/:h3Index up to its await: a cached cell is answered at once.
HexGet(h) ==
    IF hexCache[h] # NoCacheEntry
    THEN /\ resp' = Resp("hex", 0, h, 200, TRUE,
                         applyCoastBufferFromCache(hexCache, h, hexCache[h]), "cache")
         /\ UNCHANGED <<memVars, diskVars, fsWritable, reqs>>
    ELSE /\ FreeSlots # {}
         /\ reqs' = [reqs EXCEPT ![NewSlot] = HexRequest("hex", h)]
         /\ resp' = NoResp
         /\ UNCHANGED <<memVars, diskVars, fsWritable>>

\* A hex route that caches the category it displays.
cacheAfterHexGetWidened(cache, h, outcome) ==
    IF outcome = UpstreamFailed THEN cache
    ELSE [cache EXCEPT ![h] =
             applyCoastBufferFromCache(
                 [cache EXCEPT ![h] = inferZoneTypeFromOverpass(outcome.tags).zoneType],
                 h, inferZoneTypeFromOverpass(outcome.tags).zoneType)]

\* The cache after GET /api/hex/:h3Index got its upstream outcome: only a
\* successful classification is written.
cacheAfterHexGet(cache, h, outcome) ==
    IF outcome = UpstreamFailed THEN cache
    ELSE [cache EXCEPT ![h] = inferZoneTypeFromOverpass(outcome.tags).zoneType]

\* The buffer after inferZoneTypeFromOverpass resolved h from an outcome.
bufferAfterClassify(buffer, h, outcome) ==
    IF outcome # UpstreamFailed /\ inferZoneTypeFromOverpass(outcome.tags).zoneType = "COAST"
    THEN markCoastAndBuffer(buffer, h)
    ELSE buffer

\* The category a route reports from an upstream outcome, before widening.
baseZoneType(h, outcome) ==
    IF outcome = UpstreamFailed THEN fallbackZoneType(h)
    ELSE inferZoneTypeFromOverpass(outcome.tags).zoneType

\* GET /api/hex/:h3Index resumed from `await inferZoneTypeFromOverpass`.
HexGetResume(slot, outcome) ==
    LET r == reqs[slot]
        h == r.toH3
    IN /\ r.op = "hex"
       /\ reqs' = [reqs EXCEPT ![slot] = Idle]
       /\ coastBufferHexes' = bufferAfterClassify(coastBufferHexes, h, outcome)
       /\ diskCoastBuffer' = saveCoastBufferIfChanged(fsWritable, diskCoastBuffer,
                                                      coastBufferHexes, coastBufferHexes')
       /\ hexCache' = cacheAfterHexGet(hexCache, h, outcome)
       /\ diskHexCache' = IF outcome = UpstreamFailed THEN diskHexCache
                          ELSE saveDoc(fsWritable, diskHexCache, hexCache')
       /\ resp' = Resp("hex", 0, h, 200, TRUE,
                       applyCoastBufferFromCache(hexCache', h, baseZoneType(h, outcome)),
                       IF outcome = UpstreamFailed THEN "fallback" ELSE "upstream")
       /\ UNCHANGED <<usersById, treasury, miningEvents, diskUsers, diskTreasury,
                      diskMiningEvents, fsWritable>>

\* GET /api/hex/:h3Index/osm: always queries, never writes the cache.
HexOsm(h) ==
    /\ FreeSlots # {}
    /\ reqs' = [reqs EXCEPT ![NewSlot] = HexRequest("osm", h)]
    /\ resp' = NoResp
    /\ UNCHANGED <<memVars, diskVars, fsWritable>>

HexOsmResume(slot, outcome) ==
    LET r == reqs[slot]
        h == r.toH3
    IN /\ r.op = "osm"
       /\ reqs' = [reqs EXCEPT ![slot] = Idle]
       /\ coastBufferHexes' = bufferAfterClassify(coastBufferHexes, h, outcome)
       /\ diskCoastBuffer' = saveCoastBufferIfChanged(fsWritable, diskCoastBuffer,
                                                      coastBufferHexes, coastBufferHexes')
       /\ resp' = [Resp("osm", 0, h, 200, TRUE,
                        IF outcome = UpstreamFailed THEN fallbackZoneType(h)
                        ELSE applyCoastBufferFromCache(hexCache, h, baseZoneType(h, outcome)),
                        IF outcome = UpstreamFailed THEN "fallback" ELSE "upstream")
                    EXCEPT !.elements = outcome.tags]
       /\ UNCHANGED <<usersById, hexCache, treasury, miningEvents, diskUsers,
                      diskHexCache, diskTreasury, diskMiningEvents, fsWritable>>

\* GET /api/hex/:h3Index/classify-centroid: the local variant, no state.
HexCentroid(h) ==
    /\ FreeSlots # {}
    /\ reqs' = [reqs EXCEPT ![NewSlot] = HexRequest("centroid", h)]
    /\ resp' = NoResp
    /\ UNCHANGED <<memVars, diskVars, fsWritable>>

HexCentroidResume(slot, outcome) ==
    LET r == reqs[slot]
        h == r.toH3
    IN /\ r.op = "centroid"
       /\ reqs' = [reqs EXCEPT ![slot] = Idle]
       /\ resp' = [Resp("centroid", 0, h, 200, TRUE,
                        IF outcome = UpstreamFailed THEN fallbackZoneType(h)
                        ELSE inferZoneTypeAtCentroid(outcome.tags).zoneType,
                        IF outcome = UpstreamFailed THEN "fallback" ELSE "upstream")
                    EXCEPT !.elements = outcome.tags]
       /\ UNCHANGED <<memVars, diskVars, fsWritable>>

\* ------------------------------------------------- the upstream fetch
\* A classification route at `await fetch(endpoint, ...)`: one upstream
\* request is answered and the loop of overpassFetch moves on.
OverpassAttempt(slot, reply) ==
    LET r == reqs[slot]
    IN /\ r.op \in {"hex", "osm", "centroid"}
       /\ ~r.fetch.done
       /\ reqs' = [reqs EXCEPT ![slot].fetch = overpassFetch(@, reply)]
       /\ UNCHANGED <<memVars, diskVars, fsWritable, resp>>

\* The routes resumed once overpassFetch has returned or thrown.
HexGetFetched(slot) ==
    reqs[slot].fetch.done /\ HexGetResume(slot, reqs[slot].fetch.outcome)

HexOsmFetched(slot) ==
    reqs[slot].fetch.done /\ HexOsmResume(slot, reqs[slot].fetch.outcome)

HexCentroidFetched(slot) ==
    reqs[slot].fetch.done /\ HexCentroidResume(slot, reqs[slot].fetch.outcome)

\* ---------------------------------- the single-user server's hex route
\* src/server/index.ts is the earlier, single-user server of the repository;
\* it keeps the same hexCache.json and has no coastal buffer.
legacyZoneType(tags) ==
    IF tags \cap {"natural=sea", "natural=water", "water"} # {} THEN "SEA"
    ELSE IF hasMilitary(tags) THEN "MILITARY"
    ELSE IF hasHospital(tags) THEN "HOSPITAL"
    ELSE IF tags \cap {"highway=motorway", "highway=trunk", "highway=primary",
                       "highway=secondary"} # {} THEN "MAIN_ROAD"
    ELSE IF tags \cap {"leisure=nature_reserve", "boundary=protected_area",
                       "leisure=park", "landuse=forest", "natural=wood"} # {}
    THEN "NATURE_RESERVE"
    ELSE IF tags \cap {"waterway=river", "waterway=stream", "waterway=canal",
                       "water=river"} # {} THEN "RIVER"
    ELSE IF "natural=coastline" \in tags THEN "COAST"
    ELSE IF hasCliff(tags) THEN "CLIFF"
    ELSE "URBAN"

\* The hash-based fallback: the sum of the id's character codes picks the
\* category.  The id of cell h is taken to have character-code sum h.
legacyFallbackZoneType(h) ==
    LET zoneTypes == <<"SEA", "MAIN_ROAD", "URBAN", "MILITARY", "HOSPITAL", "CLIFF", "COAST">>
        hash == h % 10000
    IN zoneTypes[(hash % Len(zoneTypes)) + 1]

\* GET /api/hex/:h3Index of the single-user server up to its await.
LegacyHexGet(h) ==
    IF hexCache[h] # NoCacheEntry
    THEN /\ resp' = Resp("hex", 0, h, 200, TRUE, hexCache[h], "cache")
         /\ UNCHANGED <<memVars, diskVars, fsWritable, reqs>>
    ELSE /\ FreeSlots # {}
         /\ reqs' = [reqs EXCEPT ![NewSlot] = HexRequest("legacyhex", h)]
         /\ resp' = NoResp
         /\ UNCHANGED <<memVars, diskVars, fsWritable>>

\* The same handler resumed: the classification and the fallback are both
\* written to the cache and saved.
LegacyHexGetResume(slot, outcome) ==
    LET r == reqs[slot]
        h == r.toH3
        zoneType == IF outcome = UpstreamFailed THEN legacyFallbackZoneType(h)
                    ELSE legacyZoneType(outcome.tags)
    IN /\ r.op = "legacyhex"
       /\ reqs' = [reqs EXCEPT ![slot] = Idle]
       /\ hexCache' = [hexCache EXCEPT ![h] = zoneType]
       /\ diskHexCache' = saveDoc(fsWritable, diskHexCache, hexCache')
       /\ resp' = Resp("hex", 0, h, 200, TRUE, zoneType,
                       IF outcome = UpstreamFailed THEN "fallback" ELSE "upstream")
       /\ UNCHANGED <<usersById, coastBufferHexes, treasury, miningEvents, diskUsers,
                      diskCoastBuffer, diskTreasury, diskMiningEvents, fsWritable>>

\* ------------------------------------------ the compiled build's handlers
\* src/server-dist/index.js is the compiled build of the multi-user server.
\* Its requireAuth reloads the users document on every authenticated request
\* and puts the freshly loaded object into the map, so that a handler
\* suspended at an await keeps working on the object it was given.

\* req.user of a suspended handler.
heldUser(users, r) == IF r.held = NoUser THEN users[r.user] ELSE r.held

\* usersById.set(userId, user) with a fresh object: the handlers of u that
\* are in flight keep the object the map held until now.
detachInFlight(slots, users, u) ==
    [s \in Slots |->
        IF slots[s].op = "diststep" /\ slots[s].user = u /\ slots[s].held = NoUser
        THEN [slots[s] EXCEPT !.held = users[u]]
        ELSE slots[s]]

DistMineReason(fresh, users, buffer, u, h, gps) ==
    IF ~hasH3Index(h) THEN "INVALID_H3_INDEX"
    ELSE IF GpsReason(gps) # "OK" THEN GpsReason(gps)
    ELSE IF h \in fresh.ownedHexes THEN "ALREADY_MINED"
    ELSE IF \E v \in UserIds \ {u} : h \in users[v].ownedHexes THEN "ALREADY_OWNED_BY_OTHER"
    ELSE IF h \in buffer THEN "FORBIDDEN_ZONE"
    ELSE "OK"

\* POST /api/mine of the compiled build, requireAuth included.
DistMine(u, h, gps) ==
    LET fresh == diskUsers[u]
        reason == DistMineReason(fresh, usersById, coastBufferHexes, u, h, gps)
    IN IF ~fresh.exists
       THEN /\ resp' = Resp("mine", u, h, 401, FALSE, "UNAUTHENTICATED", "none")
            /\ UNCHANGED <<memVars, diskVars, fsWritable, reqs>>
       ELSE /\ reqs' = detachInFlight(reqs, usersById, u)
            /\ IF reason = "OK"
               THEN /\ usersById' = [usersById EXCEPT ![u] = MinedUser(fresh, h)]
                    /\ miningEvents' = miningEvents \o eventsFor(u, <<h>>)
                    /\ diskMiningEvents' = saveDoc(fsWritable, diskMiningEvents, miningEvents')
                    /\ diskUsers' = saveDoc(fsWritable, diskUsers, usersById')
                    /\ resp' = Resp("mine", u, h, 200, TRUE, "OK", "none")
                    /\ UNCHANGED <<hexCache, coastBufferHexes, treasury, diskHexCache,
                                   diskCoastBuffer, diskTreasury, fsWritable>>
               ELSE /\ usersById' = [usersById EXCEPT ![u] = fresh]
                    /\ resp' = Resp("mine", u, h, StatusOf(reason), FALSE, reason, "none")
                    /\ UNCHANGED <<hexCache, coastBufferHexes, treasury, miningEvents,
                                   diskVars, fsWritable>>

\* The end of drive/step in the compiled build: the handler settles the
\* batch on its own object and saves the map.
DistDriveFinish(r, newly, slots, users) ==
    LET u == r.user
        user == heldUser(users, r)
        mined == stepMined(user, newly, r.toH3)
        fee == stepFee(Len(mined))
        settled == stepSettle(user, mined)
    IN /\ reqs' = slots
       /\ IF Len(mined) = 0
          THEN /\ resp' = Resp("step", u, r.toH3, 200, FALSE, "NO_ROAD_HEXES", "none")
               /\ usersById' = users
               /\ UNCHANGED <<hexCache, coastBufferHexes, treasury, miningEvents,
                              diskVars, fsWritable>>
          ELSE /\ usersById' = IF r.held = NoUser THEN [users EXCEPT ![u] = settled]
                               ELSE users
               /\ treasury' = collectTreasuryFee(treasury, fee)
               /\ diskTreasury' = IF fee > 0 THEN saveDoc(fsWritable, diskTreasury, treasury')
                                  ELSE diskTreasury
               /\ miningEvents' = miningEvents \o eventsFor(u, mined)
               /\ diskMiningEvents' = saveDoc(fsWritable, diskMiningEvents, miningEvents')
               /\ diskUsers' = saveDoc(fsWritable, diskUsers, usersById')
               /\ resp' = [Resp("step", u, r.toH3, 200, TRUE, "OK", "none") EXCEPT !.body =
                              StepBody(Len(mined), fee, settled.balance)]
               /\ UNCHANGED <<hexCache, coastBufferHexes, diskHexCache, diskCoastBuffer,
                              fsWritable>>

DistDriveContinue(r, newly, from, slot, slots, users) ==
    LET j == NextUnowned(r.cells, from, heldUser(users, r).ownedHexes)
    IN IF j <= Len(r.cells)
       THEN /\ reqs' = [slots EXCEPT ![slot] = [r EXCEPT !.idx = j, !.newly = newly]]
            /\ resp' = NoResp
            /\ usersById' = users
            /\ UNCHANGED <<hexCache, coastBufferHexes, treasury, miningEvents,
                           diskVars, fsWritable>>
       ELSE DistDriveFinish(r, newly, slots, users)

\* POST /api/drive/step of the compiled build, requireAuth included, up to
\* its first await.
DistDriveStep(u, fromH3, toH3, noPath) ==
    LET fresh == diskUsers[u]
        users == [usersById EXCEPT ![u] = fresh]
        slots == detachInFlight(reqs, usersById, u)
        reason == DriveStepReason(users, u, fromH3, toH3)
    IN IF ~fresh.exists
       THEN /\ resp' = Resp("step", u, toH3, 401, FALSE, "UNAUTHENTICATED", "none")
            /\ UNCHANGED <<memVars, diskVars, fsWritable, reqs>>
       ELSE IF reason # "OK"
       THEN /\ resp' = Resp("step", u, toH3, StatusOf(reason), FALSE, reason, "none")
            /\ usersById' = users
            /\ reqs' = slots
            /\ UNCHANGED <<hexCache, coastBufferHexes, treasury, miningEvents,
                           diskVars, fsWritable>>
       ELSE /\ FreeSlots # {}
            /\ DistDriveContinue([op |-> "diststep", user |-> u,
                                  cells |-> IF noPath THEN <<toH3>>
                                            ELSE gridPathCells(fromH3, toH3),
                                  idx |-> 0, newly |-> <<>>, toH3 |-> toH3,
                                  held |-> NoUser, fetch |-> NoFetch],
                                 <<>>, 1, NewSlot, slots, users)

DistDriveResume(slot, outcome) ==
    LET r == reqs[slot]
    IN /\ r.op = "diststep"
       /\ DistDriveContinue(r,
                            IF isRoadHex(outcome) THEN Append(r.newly, r.cells[r.idx])
                            ELSE r.newly,
                            r.idx + 1, slot, [reqs EXCEPT ![slot] = Idle], usersById)

\* ----------------------------------------------------------- environment
\* The data directory stops or resumes accepting writes.
FsFail ==
    /\ fsWritable
    /\ fsWritable' = FALSE
    /\ resp' = NoResp
    /\ UNCHANGED <<memVars, diskVars, reqs>>

FsRecover ==
    /\ ~fsWritable
    /\ fsWritable' = TRUE
    /\ resp' = NoResp
    /\ UNCHANGED <<memVars, diskVars, reqs>>

\* The process restarts: loadUsers, loadHexCache, loadCoastBuffer,
\* loadTreasury and loadMiningEvents rebuild the in-memory state from the
\* documents; the requests in flight are gone.
Restart ==
    /\ usersById' = diskUsers
    /\ hexCache' = diskHexCache
    /\ coastBufferHexes' = diskCoastBuffer
    /\ treasury' = diskTreasury
    /\ miningEvents' = diskMiningEvents
    /\ reqs' = [s \in Slots |-> Idle]
    /\ resp' = NoResp
    /\ UNCHANGED <<diskVars, fsWritable>>

\* ------------------------------------------------------- specifications
\* The cells a client names in a claim request: the land cells, or no valid
\* cell at all.
CellInputs == (1..NumLand) \cup {InvalidH3}

\* The cells the classification routes are asked about: the land cell
\* nearest the shore, the water cell next to the shore, and the shore.
ClassifyInputs == {NumLand, NumCells - 1, NumCells}

\* The cell whose classification the request in a slot is suspended on.
Awaited(s) == IF reqs[s].op = "idle" THEN DEFAULT_START_HEX ELSE reqs[s].cells[reqs[s].idx]

NoneInFlight == \A s \in Slots : reqs[s].op = "idle"

\* Every route, every user, requests overlapping at their awaits.
Next ==
    \/ \E u \in UserIds : Register(u)
    \/ \E u \in UserIds, h \in CellInputs : Mine(u, h)
    \/ \E u \in UserIds, h \in CellInputs, gps \in GpsProofs : Spawn(u, h, gps)
    \/ \E u \in UserIds, h \in CellInputs : DriveSimulate(u, h)
    \/ \E u \in UserIds, f \in CellInputs, t \in CellInputs, np \in BOOLEAN :
           DriveStep(u, f, t, np)
    \/ \E s \in Slots : \E o \in UpstreamOutcomes(Awaited(s)) : DriveResume(s, o)
    \/ \E h \in ClassifyInputs : HexGet(h)
    \/ \E s \in Slots : \E o \in UpstreamOutcomes(Awaited(s)) : HexGetResume(s, o)
    \/ \E h \in ClassifyInputs : HexOsm(h)
    \/ \E s \in Slots : \E o \in UpstreamOutcomes(Awaited(s)) : HexOsmResume(s, o)
    \/ \E h \in ClassifyInputs : HexCentroid(h)
    \/ \E s \in Slots : \E o \in UpstreamOutcomes(Awaited(s)) : HexCentroidResume(s, o)
    \/ \E h \in ClassifyInputs : LegacyHexGet(h)
    \/ \E s \in Slots : \E o \in UpstreamOutcomes(Awaited(s)) : LegacyHexGetResume(s, o)
    \/ FsFail
    \/ FsRecover
    \/ Restart

Spec == Init /\ [][Next]_vars

\* Start-up on a data directory that holds at most a coastal buffer an
\* earlier run observed from the shore cell.
InitOwn ==
    /\ usersById = [u \in UserIds |-> NoUser]
    /\ hexCache = [c \in Cells |-> NoCacheEntry]
    /\ coastBufferHexes \in {{}, markCoastAndBuffer({}, NumCells)}
    /\ treasury = 0
    /\ miningEvents = <<>>
    /\ diskUsers = usersById
    /\ diskHexCache = hexCache
    /\ diskCoastBuffer = coastBufferHexes
    /\ diskTreasury = 0
    /\ diskMiningEvents = <<>>
    /\ fsWritable = TRUE
    /\ reqs = [s \in Slots |-> Idle]
    /\ resp = NoResp

\* The mining ownership engine serving its requests one at a time: a new
\* request arrives when no request is suspended.
NextOwn ==
    \/ NoneInFlight /\ \E u \in UserIds : Register(u)
    \/ NoneInFlight /\ \E u \in UserIds, h \in CellInputs : Mine(u, h)
    \/ NoneInFlight /\ \E u \in UserIds, h \in CellInputs, gps \in GpsProofs : Spawn(u, h, gps)
    \/ NoneInFlight /\ \E u \in UserIds, h \in CellInputs : DriveSimulate(u, h)
    \/ NoneInFlight /\ \E u \in UserIds, f \in CellInputs, t \in CellInputs, np \in BOOLEAN :
           DriveStep(u, f, t, np)
    \/ \E s \in Slots : \E o \in UpstreamOutcomes(Awaited(s)) : DriveResume(s, o)

SpecOwn == InitOwn /\ [][NextOwn]_vars

\* One user's claim requests overlapping in time: up to MaxInflight drive
\* requests suspended while further requests of that user are served.
OverlapUser == CHOOSE u \in UserIds : \A v \in UserIds : u <= v

NextOverlap ==
    \/ Register(OverlapUser)
    \/ \E h \in CellInputs : Mine(OverlapUser, h)
    \/ \E h \in CellInputs, gps \in GpsProofs : Spawn(OverlapUser, h, gps)
    \/ \E h \in CellInputs : DriveSimulate(OverlapUser, h)
    \/ \E f \in CellInputs, t \in CellInputs, np \in BOOLEAN : DriveStep(OverlapUser, f, t, np)
    \/ \E s \in Slots : \E o \in UpstreamOutcomes(Awaited(s)) : DriveResume(s, o)

SpecOverlap == InitOwn /\ [][NextOverlap]_vars

\* The users documents an earlier run may have left: no cell in two users'
\* owned sets.
UsersFiles ==
    {f \in [UserIds -> [exists : {TRUE}, balance : {START_BALANCE},
                        ownedHexes : {{}} \cup {{c} : c \in Cells}]] :
        \A u \in UserIds, v \in UserIds :
            u # v => f[u].ownedHexes \cap f[v].ownedHexes = {}}

InitMine ==
    /\ usersById \in UsersFiles
    /\ hexCache = [c \in Cells |-> NoCacheEntry]
    /\ coastBufferHexes \in {{}, markCoastAndBuffer({}, NumCells)}
    /\ treasury = 0
    /\ miningEvents = <<>>
    /\ diskUsers = usersById
    /\ diskHexCache = hexCache
    /\ diskCoastBuffer = coastBufferHexes
    /\ diskTreasury = 0
    /\ diskMiningEvents = <<>>
    /\ fsWritable = TRUE
    /\ reqs = [s \in Slots |-> Idle]
    /\ resp = NoResp

\* Mine calls only, by any users, in any order.
NextMine == \E u \in UserIds, h \in CellInputs, gps \in GpsProofs : MineRequest(u, h, gps)

SpecMine == InitMine /\ [][NextMine]_vars

\* The classification routes one request at a time, with write failures
\* and restarts.
NextClassify ==
    \/ NoneInFlight /\ \E h \in ClassifyInputs : HexGet(h)
    \/ \E s \in Slots : \E o \in UpstreamOutcomes(Awaited(s)) : HexGetResume(s, o)
    \/ NoneInFlight /\ \E h \in ClassifyInputs : HexOsm(h)
    \/ \E s \in Slots : \E o \in UpstreamOutcomes(Awaited(s)) : HexOsmResume(s, o)
    \/ NoneInFlight /\ \E h \in ClassifyInputs : HexCentroid(h)
    \/ \E s \in Slots : \E o \in UpstreamOutcomes(Awaited(s)) : HexCentroidResume(s, o)
    \/ FsFail
    \/ FsRecover
    \/ Restart

SpecClassify == Init /\ [][NextClassify]_vars

\* The single-user server's classification route one request at a time,
\* with write failures and restarts.
NextLegacy ==
    \/ NoneInFlight /\ \E h \in ClassifyInputs : LegacyHexGet(h)
    \/ \E s \in Slots : \E o \in UpstreamOutcomes(Awaited(s)) : LegacyHexGetResume(s, o)
    \/ FsFail
    \/ FsRecover
    \/ Restart

SpecLegacy == Init /\ [][NextLegacy]_vars

\* The cells a client on the coastal road names: the shore and three cells
\* of the road.
RoadInputs == {NumCells, NumCells + 1, (NumCells + RoadLen) - 3, NumCells + RoadLen}

\* The users documents of a run on the road: one account, which owns the
\* start cell and at most one of the cells the client names.
RoadUsersFiles ==
    {[u \in UserIds |->
         IF u = OverlapUser
         THEN [exists |-> TRUE, balance |-> b, ownedHexes |-> {DEFAULT_START_HEX} \cup S]
         ELSE NoUser] :
        b \in {DRIVE_COST_GHX - 1, START_BALANCE},
        S \in {{}} \cup {{c} : c \in RoadInputs}}

InitRoad ==
    /\ usersById \in RoadUsersFiles
    /\ hexCache = [c \in Cells |-> NoCacheEntry]
    /\ coastBufferHexes = {}
    /\ treasury = 0
    /\ miningEvents = <<>>
    /\ diskUsers = usersById
    /\ diskHexCache = hexCache
    /\ diskCoastBuffer = coastBufferHexes
    /\ diskTreasury = 0
    /\ diskMiningEvents = <<>>
    /\ fsWritable = TRUE
    /\ reqs = [s \in Slots |-> Idle]
    /\ resp = NoResp

\* Drive requests along the road, one at a time, up to the first request of
\* the run that claims cells.
NextRoad ==
    \/ /\ NoneInFlight /\ miningEvents = <<>>
       /\ \E u \in UserIds, h \in RoadInputs : DriveSimulate(u, h)
    \/ /\ NoneInFlight /\ miningEvents = <<>>
       /\ \E u \in UserIds, f \in RoadInputs, t \in RoadInputs, np \in BOOLEAN :
              DriveStep(u, f, t, np)
    \/ \E s \in Slots : \E o \in UpstreamOutcomes(Awaited(s)) : DriveResume(s, o)

SpecRoad == InitRoad /\ [][NextRoad]_vars

\* The compiled build with one account loaded from its users document: Mine
\* and drive/step requests of that user, overlapping at the awaits, until the
\* event log holds MaxEvents entries.
DistRoad == {NumCells + 1, NumCells + 2}

InitDist ==
    /\ usersById = [u \in UserIds |-> IF u = OverlapUser THEN createUser ELSE NoUser]
    /\ hexCache = [c \in Cells |-> NoCacheEntry]
    /\ coastBufferHexes = {}
    /\ treasury = 0
    /\ miningEvents = <<>>
    /\ diskUsers = usersById
    /\ diskHexCache = hexCache
    /\ diskCoastBuffer = {}
    /\ diskTreasury = 0
    /\ diskMiningEvents = <<>>
    /\ fsWritable = TRUE
    /\ reqs = [s \in Slots |-> Idle]
    /\ resp = NoResp

NextDist ==
    \/ /\ Len(miningEvents) < MaxEvents
       /\ \E u \in UserIds, h \in CellInputs, gps \in GpsProofs : DistMine(u, h, gps)
    \/ /\ Len(miningEvents) < MaxEvents
       /\ \E u \in UserIds, f \in DistRoad, t \in DistRoad, np \in BOOLEAN :
              DistDriveStep(u, f, t, np)
    \/ \E s \in Slots : \E o \in UpstreamOutcomes(Awaited(s)) : DistDriveResume(s, o)

SpecDist == InitDist /\ [][NextDist]_vars

\* The classification routes with the upstream fetch taken one request at a
\* time.  Every upstream request settles (the runtime's fetch times out) and
\* every settled handler runs on.
NextFetch ==
    \/ NoneInFlight /\ \E h \in ClassifyInputs : HexGet(h)
    \/ NoneInFlight /\ \E h \in ClassifyInputs : HexOsm(h)
    \/ NoneInFlight /\ \E h \in ClassifyInputs : HexCentroid(h)
    \/ \E s \in Slots : \E reply \in FetchReplies(Awaited(s)) : OverpassAttempt(s, reply)
    \/ \E s \in Slots : HexGetFetched(s)
    \/ \E s \in Slots : HexOsmFetched(s)
    \/ \E s \in Slots : HexCentroidFetched(s)

FetchProgress ==
    \/ \E s \in Slots : \E reply \in FetchReplies(Awaited(s)) : OverpassAttempt(s, reply)
    \/ \E s \in Slots : HexGetFetched(s) \/ HexOsmFetched(s) \/ HexCentroidFetched(s)

SpecFetch == Init /\ [][NextFetch]_vars /\ WF_vars(FetchProgress)

\* The compiled build serving one request at a time, on a data directory
\* that may stop and resume accepting writes.
NextDistFs ==
    \/ /\ NoneInFlight /\ Len(miningEvents) < MaxEvents
       /\ \E u \in UserIds, h \in CellInputs, gps \in GpsProofs : DistMine(u, h, gps)
    \/ /\ NoneInFlight /\ Len(miningEvents) < MaxEvents
       /\ \E u \in UserIds, f \in DistRoad, t \in DistRoad, np \in BOOLEAN :
              DistDriveStep(u, f, t, np)
    \/ \E s \in Slots : \E o \in UpstreamOutcomes(Awaited(s)) : DistDriveResume(s, o)
    \/ FsFail
    \/ FsRecover

SpecDistFs == InitDist /\ [][NextDistFs]_vars

\* Every route that can collect a fee, for one registered user, one request
\* at a time: Mine and Spawn on the mainland, and drives along the whole
\* coastal road until one of them has claimed road cells.
FeeRoad == {NumCells + 1, NumCells + RoadLen}

NoRoadCellMined == \A i \in 1..Len(miningEvents) : miningEvents[i].h3Index <= NumLand

InitFees ==
    /\ usersById = [u \in UserIds |-> IF u = OverlapUser THEN createUser ELSE NoUser]
    /\ hexCache = [c \in Cells |-> NoCacheEntry]
    /\ coastBufferHexes = {}
    /\ treasury = 0
    /\ miningEvents = <<>>
    /\ diskUsers = usersById
    /\ diskHexCache = hexCache
    /\ diskCoastBuffer = {}
    /\ diskTreasury = 0
    /\ diskMiningEvents = <<>>
    /\ fsWritable = TRUE
    /\ reqs = [s \in Slots |-> Idle]
    /\ resp = NoResp

NextFees ==
    \/ NoneInFlight /\ \E h \in CellInputs, gps \in {"valid", "stale"} :
                           MineRequest(OverlapUser, h, gps)
    \/ NoneInFlight /\ \E h \in CellInputs, gps \in {"valid", "stale"} :
                           Spawn(OverlapUser, h, gps)
    \/ /\ NoneInFlight /\ NoRoadCellMined
       /\ \E h \in FeeRoad : DriveSimulate(OverlapUser, h)
    \/ /\ NoneInFlight /\ NoRoadCellMined
       /\ \E f \in FeeRoad, t \in FeeRoad, np \in BOOLEAN : DriveStep(OverlapUser, f, t, np)
    \/ \E s \in Slots : \E o \in UpstreamOutcomes(Awaited(s)) : DriveResume(s, o)

SpecFees == InitFees /\ [][NextFees]_vars

\* Tags the classifiers test, one or two for each flag, and one they ignore.
TagUniverse ==
    {"landuse=military", "amenity=prison", "amenity=hospital", "highway=trunk",
     "highway=residential", "natural=cliff", "natural=beach", "landuse=commercial",
     "building=government", "place=sea", "landuse=forest", "amenity=cafe"}

\* An upstream that may hold any features for a cell.
AnyFeatures == {[ok |-> TRUE, tags |-> t] : t \in SUBSET TagUniverse} \cup {UpstreamFailed}

\* The two diagnostic classification routes on a cell of the mainland, one
\* request at a time, whatever the map holds there.
NextTags ==
    \/ NoneInFlight /\ HexOsm(NumLand)
    \/ \E s \in Slots : \E o \in AnyFeatures : HexOsmResume(s, o)
    \/ NoneInFlight /\ HexCentroid(NumLand)
    \/ \E s \in Slots : \E o \in AnyFeatures : HexCentroidResume(s, o)

SpecTags == Init /\ [][NextTags]_vars

\* Features of every road class, alone and mixed with a hospital, a building
\* and water.
HighwayUniverse ==
    HighwayTags \cup {"amenity=hospital", "building", "natural=water"}

RoadFeatures == {[ok |-> TRUE, tags |-> t] : t \in SUBSET HighwayUniverse} \cup {UpstreamFailed}

\* The two diagnostic classification routes on a cell of the mainland, one
\* request at a time, over every mix of road classes.
NextHighways ==
    \/ NoneInFlight /\ HexOsm(NumLand)
    \/ \E s \in Slots : \E o \in RoadFeatures : HexOsmResume(s, o)
    \/ NoneInFlight /\ HexCentroid(NumLand)
    \/ \E s \in Slots : \E o \in RoadFeatures : HexCentroidResume(s, o)

SpecHighways == Init /\ [][NextHighways]_vars

\* The users documents an earlier run may have left two accounts with: a
\* balance below, at or above the spawn cost, and at most one owned cell,
\* no cell owned twice.
SpawnUsersFiles ==
    {f \in [UserIds -> [exists : {TRUE},
                        balance : {SPAWN_COST_GHX - 1, SPAWN_COST_GHX, START_BALANCE},
                        ownedHexes : {{}, {NumCells + RoadLen}} \cup
                                     {{c} : c \in 1..NumLand}]] :
        \A u \in UserIds, v \in UserIds :
            u # v => f[u].ownedHexes \cap f[v].ownedHexes = {}}

InitSpawn ==
    /\ usersById \in SpawnUsersFiles
    /\ hexCache = [c \in Cells |-> NoCacheEntry]
    /\ coastBufferHexes \in {{}, markCoastAndBuffer({}, NumCells)}
    /\ treasury = 0
    /\ miningEvents = <<>>
    /\ diskUsers = usersById
    /\ diskHexCache = hexCache
    /\ diskCoastBuffer = coastBufferHexes
    /\ diskTreasury = 0
    /\ diskMiningEvents = <<>>
    /\ fsWritable = TRUE
    /\ reqs = [s \in Slots |-> Idle]
    /\ resp = NoResp

\* Spawn calls only, by any users, in any order.
NextSpawn == \E u \in UserIds, h \in CellInputs, gps \in GpsProofs : Spawn(u, h, gps)

SpecSpawn == InitSpawn /\ [][NextSpawn]_vars

\* ---------------------------------------------------------------- claims
EventOf(u, h) == [userId |-> u, h3Index |-> h]

Owners(c) == {u \in UserIds : c \in usersById[u].ownedHexes}

ClaimOps == {"mine", "spawn", "simulate", "step"}

\* C1 (SpecMine): starting with no cell in two users' owned sets, after any
\* sequence of Mine calls by any users every cell has at most one owner.
MineKeepsOneOwnerPerCell == \A c \in Cells : Cardinality(Owners(c)) <= 1

\* C1 witness: one user mined a cell, and another user's Mine for that cell
\* was refused.
MineRaceLost ==
    /\ Len(miningEvents) = 1
    /\ resp.op = "mine" /\ resp.code = "OWNED_BY_OTHER"
    /\ \A v \in UserIds :
           usersById[v].ownedHexes =
               IF v = miningEvents[1].userId THEN {miningEvents[1].h3Index} ELSE {}

\* C2 (SpecOwn): in every state reachable through registration, Mine, Spawn,
\* DriveSimulate and DriveStep, no cell is in the owned sets of two users.
NoCellOwnedTwice ==
    \A u \in UserIds, v \in UserIds :
        u # v => usersById[u].ownedHexes \cap usersById[v].ownedHexes = {}

\* C3 (SpecOwn): no step adds to a user's owned set a cell that is in the
\* Coastal Buffer Set when the step is taken.
ClaimsRespectCoastBuffer ==
    [][\A u \in UserIds :
          (usersById'[u].ownedHexes \ usersById[u].ownedHexes) \cap coastBufferHexes = {}]_vars

\* C4 (SpecClassify): the Coastal Buffer Set never loses a cell, restarts
\* included.
CoastBufferOnlyGrows == [][coastBufferHexes \subseteq coastBufferHexes']_vars

\* C5 (SpecLegacy): a GET /api/hex/{cell} answered from the fallback,
\* the upstream query having failed, leaves the Classification Cache, in
\* memory and persisted, as it was before the answer.
FallbackLeavesCacheAlone ==
    [][(resp'.op = "hex" /\ resp'.via = "fallback") =>
          /\ hexCache' = hexCache
          /\ diskHexCache' = diskHexCache]_vars

\* C6 (SpecOverlap): for every (user, cell) at most one mining event is
\* recorded, overlapping drive requests of one user included.
NoPairMinedTwice ==
    \A i \in 1..Len(miningEvents), j \in 1..Len(miningEvents) :
        i # j => miningEvents[i] # miningEvents[j]

\* C7 (SpecOwn): a claim call that answers ok:false leaves every user's
\* balance and owned set, the treasury and the event log as they were, from
\* its first step to its answer, and answers with a code: a reason with
\* status 200, or an error with status 400 or 401.
FailedClaimChangesNothing ==
    [][(resp' = NoResp \/ (resp'.op \in ClaimOps /\ ~resp'.ok)) =>
          /\ usersById' = usersById
          /\ treasury' = treasury
          /\ miningEvents' = miningEvents
          /\ resp' # NoResp =>
                 /\ resp'.code \notin {"none", "OK"}
                 /\ resp'.status \in {200, 400, 401}
                 /\ resp'.code \notin {"UNAUTHENTICATED", "INVALID_H3_INDEX"} =>
                        resp'.status = 200]_vars

\* C7 witness: a drive request of a user who owns cells and has been paid
\* answered NO_ROAD_HEXES.
DriveFoundNoRoad ==
    /\ resp.op \in {"simulate", "step"} /\ resp.code = "NO_ROAD_HEXES"
    /\ Len(miningEvents) > 0

\* C8 (SpecMine): a successful Mine raises the caller's balance by exactly
\* 1, adds exactly the claimed cell to the caller's owned set, and changes
\* no other user.
MineCreditsOneCell ==
    [][\A u \in UserIds, h \in CellInputs :
          (Mine(u, h) /\ resp'.ok) =>
              /\ usersById'[u].balance = usersById[u].balance + 1
              /\ h \notin usersById[u].ownedHexes
              /\ usersById'[u].ownedHexes = usersById[u].ownedHexes \cup {h}
              /\ \A v \in UserIds \ {u} : usersById'[v] = usersById[v]]_vars

\* C8 witness: a Mine succeeded while another user owned a cell.
MineSucceeded ==
    /\ resp.op = "mine" /\ resp.ok
    /\ Len(miningEvents) = 1
    /\ \E v \in UserIds \ {miningEvents[1].userId} : usersById[v].ownedHexes # {}

\* C9 (SpecMine): a Mine for a (user, cell) that an earlier Mine of the run
\* claimed answers ALREADY_MINED and leaves the users, the treasury and the
\* event log unchanged.
SecondMineIsAlreadyMined ==
    [][\A u \in UserIds, h \in CellInputs :
          (Mine(u, h) /\ \E i \in 1..Len(miningEvents) : miningEvents[i] = EventOf(u, h)) =>
              /\ resp'.code = "ALREADY_MINED" /\ ~resp'.ok
              /\ usersById' = usersById
              /\ treasury' = treasury
              /\ miningEvents' = miningEvents]_vars

\* C9 witness: the only owner of any cell mined its one cell in this run and
\* then was answered ALREADY_MINED.
MinedTwice ==
    /\ Len(miningEvents) = 1
    /\ resp.op = "mine" /\ resp.code = "ALREADY_MINED"
    /\ usersById[miningEvents[1].userId].ownedHexes = {miningEvents[1].h3Index}
    /\ \A v \in UserIds \ {miningEvents[1].userId} : usersById[v].ownedHexes = {}

\* C10 (SpecMine): Mine on a cell that another user owns fails with reason
\* ALREADY_OWNED_BY_OTHER and leaves the caller's owned set and balance
\* unchanged.
MineOnOthersCellRefused ==
    [][\A u \in UserIds, h \in CellInputs :
          (/\ Mine(u, h)
           /\ usersById[u].exists
           /\ h \notin usersById[u].ownedHexes
           /\ \E v \in UserIds \ {u} : h \in usersById[v].ownedHexes) =>
              /\ resp'.code = "ALREADY_OWNED_BY_OTHER" /\ ~resp'.ok
              /\ usersById'[u] = usersById[u]]_vars

\* The cells a step adds to the owned set of user u.
Added(u) == usersById'[u].ownedHexes \ usersById[u].ownedHexes

\* C11 (SpecRoad): a DriveStep that answers ok:true claimed N >= 1 cells of
\* one user; that user's balance changes by N - floor(N/10), the treasury
\* grows by floor(N/10), exactly N cells join the owned set, and the body
\* reports count = N, grossReward = N, fee = floor(N/10), netDelta = N - fee
\* and newBalance = old balance + netDelta.
DriveStepPaysNetOfFee ==
    [][(resp'.op = "step" /\ resp'.ok) =>
          \E u \in UserIds :
              LET N == Cardinality(Added(u))
                  fee == N \div 10
              IN /\ N >= 1
                 /\ usersById[u].ownedHexes \subseteq usersById'[u].ownedHexes
                 /\ usersById'[u].balance = usersById[u].balance + (N - fee)
                 /\ treasury' = treasury + fee
                 /\ Len(miningEvents') = Len(miningEvents) + N
                 /\ resp'.body.count = N
                 /\ resp'.body.grossReward = N
                 /\ resp'.body.fee = fee
                 /\ resp'.body.netDelta = N - fee
                 /\ resp'.body.newBalance = usersById[u].balance + (N - fee)
                 /\ \A v \in UserIds \ {u} : usersById'[v] = usersById[v]]_vars

\* C11 witness: a DriveStep claimed at least ten cells and paid a fee.
DriveStepPaidFee ==
    /\ resp.op = "step" /\ resp.ok
    /\ resp.body.count >= 10 /\ resp.body.fee >= 1 /\ treasury >= 1

\* C12 (SpecSpawn): an otherwise valid Spawn (valid proof, cell not owned by
\* the caller) by a user whose balance is below 5 answers INSUFFICIENT_GHX
\* and leaves the users, the treasury and the event log unchanged.
PoorSpawnRefused ==
    [][\A u \in UserIds, h \in CellInputs :
          (/\ Spawn(u, h, "valid")
           /\ usersById[u].exists /\ hasH3Index(h)
           /\ h \notin usersById[u].ownedHexes
           /\ usersById[u].balance < 5) =>
              /\ resp'.code = "INSUFFICIENT_GHX" /\ ~resp'.ok
              /\ usersById' = usersById
              /\ treasury' = treasury
              /\ miningEvents' = miningEvents]_vars

\* C12 witness: a user with balance 4 was answered INSUFFICIENT_GHX.
PoorSpawnAnswered ==
    /\ resp.op = "spawn" /\ resp.code = "INSUFFICIENT_GHX"
    /\ miningEvents = <<>>
    /\ \E u \in UserIds : usersById[u].balance = 4
    /\ \A u \in UserIds : usersById[u].balance \in {4, START_BALANCE}

\* C13 (SpecSpawn): a successful Spawn debits exactly 5 from the caller,
\* credits exactly 5 to the treasury, adds the cell to the caller's owned
\* set and changes no other user; it succeeds wherever the cell lies.
SpawnDebitsCost ==
    [][\A u \in UserIds, h \in CellInputs, gps \in GpsProofs :
          (Spawn(u, h, gps) /\ resp'.ok) =>
              /\ usersById'[u].balance = usersById[u].balance - 5
              /\ treasury' = treasury + 5
              /\ h \notin usersById[u].ownedHexes
              /\ usersById'[u].ownedHexes = usersById[u].ownedHexes \cup {h}
              /\ \A v \in UserIds \ {u} : usersById'[v] = usersById[v]]_vars

\* C13 witness: a Spawn succeeded on a cell with no owned neighbour, the
\* caller owning a cell far from it.
SpawnedFarAway ==
    /\ resp.op = "spawn" /\ resp.ok
    /\ Len(miningEvents) = 1
    /\ treasury = 5
    /\ usersById[miningEvents[1].userId].ownedHexes =
           {miningEvents[1].h3Index, NumCells + RoadLen}

\* C14 (SpecSpawn): Spawn on a cell that another user owns fails and changes
\* no balance, owned set or treasury.
SpawnOnOthersCellRefused ==
    [][\A u \in UserIds, h \in CellInputs, gps \in GpsProofs :
          (/\ Spawn(u, h, gps)
           /\ usersById[u].exists
           /\ \E v \in UserIds \ {u} : h \in usersById[v].ownedHexes) =>
              /\ ~resp'.ok
              /\ usersById' = usersById
              /\ treasury' = treasury]_vars

\* C15 (SpecRoad): a DriveSimulate call that succeeds claims N >= 1 cells,
\* debits 5 once and credits 5 to the treasury, pays 1 per cell, so the
\* balance changes by exactly N - 5; a call answered NO_ROAD_HEXES changes
\* no user, and neither the treasury nor the event log.
DriveSimulatePaysNetOfCost ==
    [][(resp'.op = "simulate") =>
          /\ resp'.ok =>
                \E u \in UserIds :
                    LET N == Cardinality(Added(u))
                    IN /\ N >= 1
                       /\ usersById[u].ownedHexes \subseteq usersById'[u].ownedHexes
                       /\ usersById'[u].balance = usersById[u].balance + (N - 5)
                       /\ treasury' = treasury + 5
                       /\ Len(miningEvents') = Len(miningEvents) + N
                       /\ resp'.body.count = N
                       /\ resp'.body.ghxCost = 5
                       /\ resp'.body.newBalance = usersById[u].balance + (N - 5)
                       /\ \A v \in UserIds \ {u} : usersById'[v] = usersById[v]
          /\ resp'.code = "NO_ROAD_HEXES" =>
                /\ usersById' = usersById
                /\ treasury' = treasury
                /\ miningEvents' = miningEvents]_vars

\* C15 witness: a DriveSimulate claimed more cells than its cost, and the
\* treasury holds the cost.
DriveSimulateEarned ==
    /\ resp.op = "simulate" /\ resp.ok
    /\ resp.body.count > DRIVE_COST_GHX
    /\ treasury = DRIVE_COST_GHX
    /\ Len(miningEvents) = resp.body.count

\* C16 (SpecRoad): a DriveStep between two different cells on which no path
\* cell qualified claims the destination alone when the caller does not own
\* it, and answers NO_ROAD_HEXES exactly when no path cell qualified and the
\* caller owns the destination; a DriveStep from a cell to itself answers
\* SAME_HEX.
DriveStepFallsBackToDestination ==
    [][/\ \A s \in Slots : \A o \in UpstreamOutcomes(Awaited(s)) :
            (reqs[s].op = "step" /\ DriveResume(s, o) /\ reqs'[s] = Idle) =>
                LET r == reqs[s]
                    u == r.user
                    noneQualified == Len(r.newly) = 0 /\ ~isRoadHex(o)
                    owns == r.toH3 \in usersById[u].ownedHexes
                IN /\ (noneQualified /\ ~owns) =>
                          /\ resp'.ok
                          /\ resp'.body.count = 1
                          /\ usersById'[u].ownedHexes =
                                 usersById[u].ownedHexes \cup {r.toH3}
                   /\ ((resp'.code = "NO_ROAD_HEXES") <=> (noneQualified /\ owns))
       /\ \A u \in UserIds, f \in RoadInputs, t \in RoadInputs, np \in BOOLEAN :
            (DriveStep(u, f, t, np) /\ usersById[u].exists) =>
                /\ (f = t) => (resp'.code = "SAME_HEX" /\ usersById' = usersById)
                /\ (f # t /\ resp'.code = "NO_ROAD_HEXES") =>
                       (t \in usersById[u].ownedHexes /\ usersById' = usersById)
                /\ (f # t) => ~resp'.ok]_vars

\* C16 witness: a DriveStep claimed one cell, the shore cell, which never
\* classifies as a road cell.
DriveStepClaimedDestination ==
    /\ resp.op = "step" /\ resp.ok
    /\ resp.body.count = 1
    /\ Len(miningEvents) = 1
    /\ miningEvents[1].h3Index = NumCells

\* C18 (SpecMine): a Mine whose geolocation proof is missing, stale,
\* inaccurate or resolves to another cell is refused with GPS_REQUIRED,
\* GPS_STALE, GPS_ACCURACY_LOW or GPS_MISMATCH and changes no state.
MineChecksGpsProof ==
    [][\A u \in UserIds, h \in CellInputs, gps \in GpsProofs \ {"valid"} :
          (MineRequest(u, h, gps) /\ usersById[u].exists /\ hasH3Index(h)) =>
              /\ resp'.code = GpsReason(gps) /\ ~resp'.ok
              /\ usersById' = usersById
              /\ miningEvents' = miningEvents]_vars

\* The categories of the area classifier in their fixed order, each with
\* whether the tags match it.
AreaOrder(tags) ==
    << <<hasMilitary(tags), "MILITARY">>,
       <<hasPrisonOrGovernment(tags), "PRISON">>,
       <<hasHospital(tags), "HOSPITAL">>,
       <<hasMainRoad(tags), "MAIN_ROAD">>,
       <<hasCliff(tags), "CLIFF">>,
       <<hasCoast(tags), "COAST">>,
       <<hasUrban(tags), "URBAN">>,
       <<hasSea(tags), "SEA">>,
       <<hasNature(tags), "NATURE_RESERVE">> >>

Matching(tags) == {i \in DOMAIN AreaOrder(tags) : AreaOrder(tags)[i][1]}

FirstMatch(tags) ==
    IF Matching(tags) = {} THEN "INTERURBAN"
    ELSE AreaOrder(tags)[CHOOSE i \in Matching(tags) : \A j \in Matching(tags) : i <= j][2]

\* C19 (SpecTags): whatever features the upstream returns, the area
\* classifier answers one category, the first that matches in the order
\* military, prison/government, hospital, motorway/trunk, cliff,
\* coastline/beach, built-up, sea/water, park/forest/wood, and INTERURBAN
\* when none matches.
AreaClassifierFirstMatchWins ==
    [][(resp'.op = "osm" /\ resp'.via = "upstream") =>
          /\ resp'.code \in ZoneTypes
          /\ resp'.code = FirstMatch(resp'.elements)]_vars

\* C19 witness: the area classifier answered COAST for features that also
\* match the built-up, sea and nature categories.
AreaAnsweredFirstOfSeveral ==
    /\ resp.op = "osm" /\ resp.via = "upstream"
    /\ resp.code = "COAST"
    /\ hasUrban(resp.elements) /\ hasSea(resp.elements) /\ hasNature(resp.elements)

HasCoastOrCliffTag(tags) ==
    tags \cap {"natural=cliff", "natural=coastline", "natural=beach", "leisure=beach"} # {}

\* C20 (SpecTags): on features with no cliff, coastline or beach tag that
\* match at least one category, the local classifier answers what the area
\* classifier answers; on features that match no category the local
\* classifier answers SEA and the area classifier INTERURBAN.
ClassifierVariantsAgree ==
    [][/\ (resp'.op = "centroid" /\ resp'.via = "upstream") =>
            /\ (~HasCoastOrCliffTag(resp'.elements) /\ Matching(resp'.elements) # {}) =>
                   resp'.code = areaZoneType(resp'.elements)
            /\ (Matching(resp'.elements) = {}) =>
                   (resp'.code = "SEA" /\ areaZoneType(resp'.elements) = "INTERURBAN")
       /\ (resp'.op = "osm" /\ resp'.via = "upstream" /\ Matching(resp'.elements) = {}) =>
            resp'.code = "INTERURBAN"]_vars

\* C20 witness: the local classifier answered URBAN, as the area classifier
\* does, for features that also match the sea and nature categories.
VariantsAgreedOnSeveral ==
    /\ resp.op = "centroid" /\ resp.via = "upstream"
    /\ ~HasCoastOrCliffTag(resp.elements)
    /\ resp.code = "URBAN" /\ areaZoneType(resp.elements) = "URBAN"
    /\ hasSea(resp.elements) /\ hasNature(resp.elements)

\* C17 (SpecDist): when a drive request answers ok, whatever other requests
\* of the same user were served while it was suspended, its effects are in
\* the user's state: the in-memory balance rises by the net amount the
\* response reports, the cells of its events are in the owned set, and the
\* persisted user is the in-memory user.
OverlappingRequestsLoseNoUpdate ==
    [][(resp'.op = "step" /\ resp'.ok) =>
          \E u \in UserIds :
              /\ Len(miningEvents') = Len(miningEvents) + resp'.body.count
              /\ \A i \in (Len(miningEvents) + 1)..Len(miningEvents') :
                     /\ miningEvents'[i].userId = u
                     /\ miningEvents'[i].h3Index \in usersById'[u].ownedHexes
              /\ usersById'[u].balance = usersById[u].balance + resp'.body.netDelta
              /\ diskUsers'[u] = usersById'[u]]_vars

\* C21 (SpecClassify): when the area classifier resolves a cell to COAST
\* while the data directory accepts writes, every cell of the radius-4 disk
\* around it is in the Coastal Buffer Set, in memory and in the persisted
\* document, when the route answers.
CoastResolutionBuffersDisk ==
    [][\A s \in Slots : \A o \in UpstreamOutcomes(Awaited(s)) :
          (/\ HexGetResume(s, o) \/ HexOsmResume(s, o)
           /\ o # UpstreamFailed
           /\ inferZoneTypeFromOverpass(o.tags).zoneType = "COAST"
           /\ fsWritable) =>
              /\ gridDisk(reqs[s].toH3, COAST_BUFFER_K) \subseteq coastBufferHexes'
              /\ gridDisk(reqs[s].toH3, COAST_BUFFER_K) \subseteq diskCoastBuffer']_vars

\* C22 (SpecFetch): an upstream reply with a non-OK status other than 429
\* or 5xx settles the fetch as failed at once, with no further upstream
\* request; a 429/5xx reply or a network failure is followed by another
\* attempt as long as attempts remain.
FetchFailsFastOnOtherStatus ==
    [][\A s \in Slots : \A reply \in FetchReplies(Awaited(s)) :
          OverpassAttempt(s, reply) =>
              /\ (reply.kind = "status" /\ ~retryable(reply)) =>
                     (reqs'[s].fetch.done /\ reqs'[s].fetch.outcome = UpstreamFailed)
              /\ ((retryable(reply) \/ reply.kind = "network")
                      /\ reqs[s].fetch.attempt < maxAttempts - 1) =>
                     (~reqs'[s].fetch.done
                         /\ reqs'[s].fetch.attempt = reqs[s].fetch.attempt + 1)]_vars

FallbackDependsOnLatitudeOnly ==
    [][\A s \in Slots :
          (\/ HexGetResume(s, UpstreamFailed)
           \/ HexOsmResume(s, UpstreamFailed)
           \/ HexCentroidResume(s, UpstreamFailed)) =>
              /\ resp'.ok /\ resp'.status = 200
              /\ resp'.code = IF cellLatitude(reqs[s].toH3) > 73
                                 \/ cellLatitude(reqs[s].toH3) < 0 - 73
                              THEN "SEA" ELSE "INTERURBAN"]_vars

\* C25 (SpecClassify): GET /api/hex for a cell that has a cache entry starts
\* no upstream request, leaves the cache and the persisted documents as they
\* are, and answers the cached category (or COAST, by display widening).
CachedCellAnsweredFromCache ==
    [][\A h \in ClassifyInputs :
          (HexGet(h) /\ hexCache[h] # NoCacheEntry) =>
              /\ reqs' = reqs
              /\ hexCache' = hexCache
              /\ diskHexCache' = diskHexCache
              /\ resp'.op = "hex" /\ resp'.ok /\ resp'.via = "cache"
              /\ resp'.code \in {hexCache[h], "COAST"}]_vars

\* C25 witness: a cell cached as URBAN was answered from the cache.
AnsweredFromCache ==
    /\ resp.op = "hex" /\ resp.via = "cache" /\ resp.code = "URBAN"
    /\ hexCache[NumLand] = "URBAN"
    /\ NoneInFlight

\* C26 (SpecClassify): every classification for which the upstream returned
\* features, whichever route ran it, leaves a cache entry for the cell that
\* holds the resolved category; and a cache entry is created by such a
\* classification only.
EverySuccessIsCached ==
    [][/\ \A s \in Slots : \A o \in UpstreamOutcomes(Awaited(s)) \ {UpstreamFailed} :
            /\ (HexGetResume(s, o) \/ HexOsmResume(s, o)) =>
                   hexCache'[reqs[s].toH3] = inferZoneTypeFromOverpass(o.tags).zoneType
            /\ HexCentroidResume(s, o) =>
                   hexCache'[reqs[s].toH3] = inferZoneTypeAtCentroid(o.tags).zoneType
       /\ \A c \in Cells :
            (hexCache[c] = NoCacheEntry /\ hexCache'[c] # NoCacheEntry) =>
                \/ \E s \in Slots : \E o \in UpstreamOutcomes(c) \ {UpstreamFailed} :
                       reqs[s].toH3 = c /\ HexGetResume(s, o)
                \/ hexCache'[c] = diskHexCache[c]]_vars

\* C27 (SpecClassify): an answer that is COAST by display widening alone
\* (the cell's own category, cached, classified or fallback, is not COAST)
\* leaves the Coastal Buffer Set and its document unchanged and puts no COAST
\* entry into the cache; an answer from the cache changes no state at all,
\* and a fallback answer or an /osm answer changes no cache.
WideningWritesNothing ==
    [][/\ \A h \in ClassifyInputs :
            (HexGet(h) /\ hexCache[h] # NoCacheEntry) =>
                UNCHANGED <<memVars, diskVars>>
       /\ \A s \in Slots : \A o \in UpstreamOutcomes(Awaited(s)) :
            ((HexGetResume(s, o) \/ HexOsmResume(s, o))
                 /\ resp'.code = "COAST" /\ baseZoneType(reqs[s].toH3, o) # "COAST") =>
                /\ coastBufferHexes' = coastBufferHexes
                /\ diskCoastBuffer' = diskCoastBuffer
                /\ hexCache'[reqs[s].toH3] # "COAST"
                /\ diskHexCache'[reqs[s].toH3] # "COAST"
                /\ \A c \in Cells \ {reqs[s].toH3} : hexCache'[c] = hexCache[c]
                /\ diskHexCache' \in {diskHexCache, hexCache'}
                /\ (o = UpstreamFailed \/ reqs[s].op = "osm") =>
                       (hexCache' = hexCache /\ diskHexCache' = diskHexCache)]_vars

\* C27 witness: an uncached open-water cell next to the cached shore was
\* answered COAST on the fallback path, and has no cache entry.
WidenedFallbackAnswer ==
    /\ resp.op = "hex" /\ resp.via = "fallback" /\ resp.code = "COAST"
    /\ hexCache[NumCells] = "COAST"
    /\ hexCache[NumCells - 1] = NoCacheEntry
    /\ hexCache[NumLand] = NoCacheEntry

\* C28 (SpecFees): the treasury never decreases, and every step changes it
\* by exactly the fee of the call that was answered: 5 for a successful
\* Spawn, 5 for a successful DriveSimulate, floor(N/10) for a successful
\* DriveStep of N cells, and 0 for a Mine, a failed call or a suspension.
TreasuryGrowsByFees ==
    [][/\ treasury' >= treasury
       /\ treasury' - treasury =
              IF resp'.ok /\ resp'.op = "spawn" THEN 5
              ELSE IF resp'.ok /\ resp'.op = "simulate" THEN 5
              ELSE IF resp'.ok /\ resp'.op = "step" THEN resp'.body.count \div 10
              ELSE 0]_vars

\* C28 witness: after a Spawn, a DriveStep of at least ten cells was
\* answered, and the treasury holds both fees.
TreasuryHoldsTwoFees ==
    /\ resp.op = "step" /\ resp.ok
    /\ resp.body.count >= 10
    /\ treasury = 5 + (resp.body.count \div 10)

\* C29 (SpecDistFs): no step removes a cell from a user's owned set, the
\* authentication of a later request included.
OwnedSetsNeverShrink ==
    [][\A u \in UserIds :
          usersById[u].exists =>
              usersById[u].ownedHexes \subseteq usersById'[u].ownedHexes]_vars

\* C30 (SpecDistFs): a claim whose write of the users document failed keeps
\* its effects in memory for later requests: a later Mine by the user of a
\* cell that is in the user's in-memory owned set is answered ALREADY_MINED
\* and pays nothing.
LaterRequestsSeeUnsavedClaim ==
    [][\A u \in UserIds, h \in CellInputs :
          (/\ DistMine(u, h, "valid")
           /\ usersById[u].exists
           /\ h \in usersById[u].ownedHexes) =>
              /\ resp'.code = "ALREADY_MINED"
              /\ usersById'[u].balance = usersById[u].balance
              /\ miningEvents' = miningEvents]_vars

\* C31 (SpecClassify): after an area classification whose returned features
\* carry a coastline or beach tag, whatever else they carry, the radius-4
\* disk around the classified cell is in the Coastal Buffer Set.
CoastFeatureFillsBuffer ==
    [][\A s \in Slots : \A o \in UpstreamOutcomes(Awaited(s)) \ {UpstreamFailed} :
          ((HexGetResume(s, o) \/ HexOsmResume(s, o)) /\ hasCoast(o.tags)) =>
              gridDisk(reqs[s].toH3, COAST_BUFFER_K) \subseteq coastBufferHexes']_vars

\* The category display widening is required to report for cell h with base
\* category base, given the cache.
NearCachedCoast(cache, h) ==
    \E c \in Cells : gridDistance(h, c) <= COAST_DISPLAY_K /\ cache[c] = "COAST"

Widened(cache, h, base) ==
    CASE base \in {"MILITARY", "PRISON", "HOSPITAL", "MAIN_ROAD", "CLIFF"} -> base
      [] NearCachedCoast(cache, h) -> "COAST"
      [] OTHER -> base

\* C32 (SpecClassify): display widening never changes a base category of
\* MILITARY, PRISON, HOSPITAL, MAIN_ROAD or CLIFF; for any other base category
\* the answer is COAST exactly when some cell within 3 rings of the queried
\* cell is cached as COAST, and the base category otherwise.
WideningKeepsSafetyCategories ==
    [][/\ \A s \in Slots : \A o \in UpstreamOutcomes(Awaited(s)) :
             HexGetResume(s, o) =>
                 resp'.code = Widened(hexCache', reqs[s].toH3, baseZoneType(reqs[s].toH3, o))
       /\ \A s \in Slots : \A o \in UpstreamOutcomes(Awaited(s)) \ {UpstreamFailed} :
             HexOsmResume(s, o) =>
                 resp'.code = Widened(hexCache, reqs[s].toH3, baseZoneType(reqs[s].toH3, o))
       /\ \A h \in ClassifyInputs :
             (hexCache[h] # NoCacheEntry /\ HexGet(h)) =>
                 resp'.code = Widened(hexCache, h, hexCache[h])]_vars

\* The shore cell is cached COAST and a later area query of it, finding a
\* cliff next to the coastline, is answered CLIFF.
CliffKeptBesideCachedCoast ==
    /\ resp.op = "osm" /\ resp.via = "upstream" /\ resp.code = "CLIFF"
    /\ hasCoast(resp.elements)
    /\ hexCache[NumCells] = "COAST"

\* A resumed area route calls markCoastAndBuffer for its cell.
MarksCoast(s, o) ==
    /\ HexGetResume(s, o) \/ HexOsmResume(s, o)
    /\ inferZoneTypeFromOverpass(o.tags).zoneType = "COAST"

\* C33 (SpecClassify): markCoastAndBuffer adds the radius-4 disk; a call for
\* a cell whose disk is already in the set leaves the set unchanged and
\* writes nothing, and a call that added a cell writes the set (the write
\* reaches the document when the file system accepts it).
MarkCoastIsIdempotent ==
    [][\A s \in Slots : \A o \in UpstreamOutcomes(Awaited(s)) \ {UpstreamFailed} :
          MarksCoast(s, o) =>
              LET disk == gridDisk(reqs[s].toH3, COAST_BUFFER_K)
              IN /\ coastBufferHexes' = coastBufferHexes \cup disk
                 /\ (disk \subseteq coastBufferHexes) =>
                        /\ coastBufferHexes' = coastBufferHexes
                        /\ diskCoastBuffer' = diskCoastBuffer
                 /\ (~(disk \subseteq coastBufferHexes) /\ fsWritable) =>
                        diskCoastBuffer' = coastBufferHexes'
                 /\ (~(disk \subseteq coastBufferHexes) /\ ~fsWritable) =>
                        diskCoastBuffer' = diskCoastBuffer]_vars

\* A repeated call on a writable file system left the document behind the
\* set: the first call's write had failed and the second wrote nothing.
SecondMarkWroteNothing ==
    /\ resp.op = "osm" /\ resp.via = "upstream" /\ resp.code = "COAST"
    /\ fsWritable
    /\ gridDisk(NumCells, COAST_BUFFER_K) \subseteq coastBufferHexes
    /\ diskCoastBuffer # coastBufferHexes

\* The strongest road class among the features under
\* motorway > trunk > primary > secondary.
Strongest(tags) ==
    CASE "highway=motorway" \in tags -> "highway=motorway"
      [] "highway=trunk" \in tags -> "highway=trunk"
      [] "highway=primary" \in tags -> "highway=primary"
      [] "highway=secondary" \in tags -> "highway=secondary"
      [] OTHER -> "none"

\* The result record of the classifier behind a diagnostic answer.
Classified(r) ==
    IF r.op = "osm" THEN inferZoneTypeFromOverpass(r.elements)
    ELSE inferZoneTypeAtCentroid(r.elements)

\* C34 (SpecHighways): a classifier returns MAIN_ROAD only when some feature
\* is a motorway or a trunk road; a highway of any class sets hasRoad; and a
\* MAIN_ROAD result has hasRoad set and roadClass equal to the strongest
\* class seen, which is motorway or trunk.
MainRoadNeedsMotorwayOrTrunk ==
    [][(resp'.op \in {"osm", "centroid"} /\ resp'.via = "upstream") =>
          LET tags == resp'.elements
              r == Classified(resp')
          IN /\ resp'.code = r.zoneType
             /\ (tags \cap HighwayTags # {}) <=> r.hasRoad
             /\ (tags \cap {"highway=motorway", "highway=trunk"} = {}) =>
                    resp'.code # "MAIN_ROAD"
             /\ (resp'.code = "MAIN_ROAD") =>
                    /\ r.hasRoad
                    /\ r.roadClass = Strongest(tags)
                    /\ r.roadClass \in {"highway=motorway", "highway=trunk"}]_vars

\* A trunk road among weaker roads was answered MAIN_ROAD.
TrunkAmongWeakerRoads ==
    /\ resp.op = "centroid" /\ resp.via = "upstream" /\ resp.code = "MAIN_ROAD"
    /\ {"highway=trunk", "highway=primary", "highway=residential"} \subseteq resp.elements
    /\ "highway=motorway" \notin resp.elements

\* The events a step appends to the log.
Appended == SubSeq(miningEvents', Len(miningEvents) + 1, Len(miningEvents'))

\* C35 (SpecOverlap): the mining-event log is append-only; a step appends
\* exactly one event (user, cell) per cell it newly adds to the owned set
\* of a registered user, and nothing else.
EventLogMatchesNewCells ==
    [][/\ Len(miningEvents') >= Len(miningEvents)
       /\ SubSeq(miningEvents', 1, Len(miningEvents)) = miningEvents
       /\ \A i \in 1..Len(Appended) :
              /\ Appended[i].h3Index \in Added(Appended[i].userId)
              /\ \A j \in 1..Len(Appended) : Appended[j] = Appended[i] => j = i
       /\ \A u \in UserIds : \A h \in Added(u) :
              usersById[u].exists =>
                  \E i \in 1..Len(Appended) : Appended[i] = EventOf(u, h)]_vars

RECURSIVE SumBalances(_, _)
SumBalances(users, S) ==
    IF S = {} THEN 0
    ELSE LET u == CHOOSE v \in S : TRUE
         IN users[u].balance + SumBalances(users, S \ {u})

\* C36 (SpecFees): over any sequence of Mine, Spawn, DriveSimulate and
\* DriveStep calls, the users' balances plus the treasury grow by exactly
\* the number of cells a successful Mine, DriveSimulate or DriveStep newly
\* claims, and stay the same through every Spawn, failed call and suspension.
CurrencyCreatedOnlyByClaims ==
    [][(SumBalances(usersById', UserIds) + treasury')
           - (SumBalances(usersById, UserIds) + treasury) =
       IF resp'.ok /\ resp'.op \in {"mine", "simulate", "step"}
       THEN Cardinality(UNION {Added(u) : u \in UserIds})
       ELSE 0]_vars

\* After one Spawn, a DriveSimulate was answered: the user paid both costs
\* to the treasury and every cell but the start cell and the spawn cell
\* created one unit.
SimulatePaidAfterSpawn ==
    /\ resp.op = "simulate" /\ resp.ok
    /\ treasury = SPAWN_COST_GHX + DRIVE_COST_GHX
    /\ SumBalances(usersById, UserIds) + treasury =
           START_BALANCE + Cardinality(usersById[OverlapUser].ownedHexes) - 2

\* C37 (SpecOverlap): no sequence or interleaving of claim operations makes
\* a user's balance negative, two overlapping DriveSimulate requests of the
\* same user included.
BalanceNeverNegative == \A u \in UserIds : usersById[u].balance >= 0

\* C38 (SpecClassify): starting from an empty cache and an empty buffer, in
\* every reachable state each cell cached with category COAST has its whole
\* radius-4 disk in the Coastal Buffer Set.
CachedCoastIsBuffered ==
    \A c \in Cells :
        hexCache[c] = "COAST" => gridDisk(c, COAST_BUFFER_K) \subseteq coastBufferHexes

\* The failure conditions of a Mine by user u of cell h with proof gps, in
\* the order of precedence, each with its reason.
MineFailures(u, h, gps) ==
    << <<gps = "missing", "GPS_REQUIRED">>,
       <<gps = "stale", "GPS_STALE">>,
       <<gps = "inaccurate", "GPS_ACCURACY_LOW">>,
       <<gps = "elsewhere", "GPS_MISMATCH">>,
       <<h \in usersById[u].ownedHexes, "ALREADY_MINED">>,
       <<\E v \in UserIds \ {u} : h \in usersById[v].ownedHexes, "ALREADY_OWNED_BY_OTHER">>,
       <<h \in coastBufferHexes, "FORBIDDEN_ZONE">> >>

Holding(u, h, gps) == {i \in 1..7 : MineFailures(u, h, gps)[i][1]}

\* C39 (SpecMine): when several failure conditions of Mine hold at once the
\* reason reported is the first that holds in the order GPS_REQUIRED,
\* GPS_STALE, GPS_ACCURACY_LOW, GPS_MISMATCH, ALREADY_MINED,
\* ALREADY_OWNED_BY_OTHER, FORBIDDEN_ZONE.
MineReportsFirstFailure ==
    [][\A u \in UserIds, h \in CellInputs, gps \in GpsProofs :
          (/\ MineRequest(u, h, gps)
           /\ usersById[u].exists /\ hasH3Index(h)
           /\ Cardinality(Holding(u, h, gps)) >= 2) =>
              LET first == CHOOSE i \in Holding(u, h, gps) :
                               \A j \in Holding(u, h, gps) : i <= j
              IN resp'.code = MineFailures(u, h, gps)[first][2] /\ ~resp'.ok]_vars

\* The local classification of a candidate succeeded with category MAIN_ROAD
\* or with a road present.
RoadSeen(o) ==
    /\ o # UpstreamFailed
    /\ \/ inferZoneTypeAtCentroid(o.tags).zoneType = "MAIN_ROAD"
       \/ inferZoneTypeAtCentroid(o.tags).hasRoad

\* The drive request of slot s took the candidate it awaited: the cell is
\* among the cells collected so far or, when the request ended in this step,
\* among the cells it claimed.
Taken(s) ==
    LET c == Awaited(s)
    IN IF reqs'[s].op # "idle" THEN c \in Range(reqs'[s].newly)
       ELSE resp'.ok /\ \E i \in 1..Len(Appended) : Appended[i].h3Index = c

\* A DriveStep ends on its destination with nothing collected: the
\* destination is claimed as the fallback, road or not.
DestinationFallback(s) ==
    /\ reqs[s].op = "step" /\ reqs[s].newly = <<>>
    /\ Awaited(s) = reqs[s].toH3
    /\ reqs'[s].op = "idle"

====
